---- MODULE Spec2Model ----
(***************************************************************************)
(* Model of the instance core (internal/server/instance/drivers/           *)
(* driver_common.go): the auto-restart budget, the device volatile reset,  *)
(* devicesUpdate and the restart / stop-hook operation locking.            *)
(*                                                                         *)
(* Each part of the program has its own specification over its own         *)
(* variables; the variables of the other parts keep their initial value.   *)
(***************************************************************************)
EXTENDS Integers, Sequences, FiniteSets, TLC

VARIABLES
    \* ---- auto-restart budget (shouldAutoRestart) ----
    instancesLastRestart,   \* map instance id -> [10]time.Time (domain: ids present)
    now,                    \* the clock read by time.Now()
    arLast,                 \* the last shouldAutoRestart call: input, result, history before
    arCalls,                \* per instance: calls made with boot.autorestart true
    arPermitted,            \* per instance: calls that returned true
    arFirst,                \* per instance: time of the first call (0: none yet)
    arLastTime,             \* per instance: time of the latest call
    \* ---- device volatile reset (deviceVolatileReset, VolatileSet) ----
    localConfig,            \* d.localConfig: map config key -> value
    vrCall,                 \* the deviceVolatileReset call: devName, oldConfig, newConfig
    vrResult,               \* its outcome: pending, ok or error, with the config before
    \* ---- devicesUpdate ----
    duInput,                \* the call: change per device, instanceRunning, userRequested
    duPc,                   \* idle, or the loop the call is in: remove, add, update, revert, done
    duQueue,                \* the entries the current loop has still to visit, in its order
    duReverter,             \* the reverter's hooks, in the order they were added
    devState,               \* per device: whether it is added (present) and started
    duLog,                  \* the device operations the call has made, in order
    duRegistered,           \* the devices a revert hook was registered for
    duResult,               \* none, ok, or the step that made the call fail
    duFaults,               \* how many device calls have not succeeded so far
    duPre,                  \* device state and local config when the call began
    \* ---- operation lock, restartCommon, onStopOperationSetup ----
    instanceOperations,     \* the lock registered for the instance's key (0: none)
    locks,                  \* every operation lock created so far
    status,                 \* the instance's status: Running, Frozen or Stopped
    ephemeral,              \* the instance's ephemeral flag
    procs,                  \* per client: its call, its position in it, what it has seen
    hook,                   \* the stop hook: its position in onStopOperationSetup
    otherOp,                \* the lock held by another operation (0: not begun, -1: over)
    guestHalts,             \* how often the guest has halted on its own
    \* ---- snapshotCommon ----
    snInput,                \* the call: snapshot name, stateful
    snPc,                   \* the call's position
    snRecords,              \* the snapshot records in the database
    snVolumes,              \* the snapshot volumes on the storage pool
    snMounts,               \* the mount reference count of the parent volume
    snReverter,             \* the reverter's hooks, in the order they were added
    snDeferred,             \* the deferred calls, in the order they were deferred
    snLog,                  \* the calls made, in order, with their outcome
    snResult,               \* none, ok, or the step that made the call fail
    snPre,                  \* records, volumes and mount count when the call began
    \* ---- rebuildCommon ----
    rbInput,                \* the call: the image, or none
    rbPc,                   \* the call's position
    rbConfig,               \* d.localConfig (shared with instLocalConfig)
    rbRow,                  \* the instance's config row in the database
    rbLog,                  \* the calls made, in order, with their outcome
    rbResult,               \* none, ok, or the call that failed
    rbPre,                  \* the local config when the call began
    \* ---- network ACL validation (validateConfig, validateRule) ----
    avCall,                 \* the call: a rule and its direction, or an ACL's info
    avInfo,                 \* the info the caller passed, as the call leaves it
    avResult,               \* pending, or the error returned (nil: none)
    \* ---- network ACL Update ----
    auUsage,                \* the networks that use the ACL, as NetworkUsage reports
    auMember,               \* per member: its Update call, its position, its info
    auRow,                  \* the ACL's row in the cluster database
    auMsgs,                 \* the requests of notifiers that no member has received
    auReplies,              \* the answers to notifiers not yet collected
    auLog,                  \* the calls made: member, client type, call
    auUpdates,              \* per member: the Updates it has begun
    \* ---- network ACL Rename and Delete ----
    rnCall,                 \* the call: Rename with its new name, or Delete
    rnPc,                   \* the step the call is at
    rnRows,                 \* the database: ACL id -> name
    rnName,                 \* d.info.Name
    rnUsage,                \* the types of the usages UsedBy reports
    rnResult,               \* pending, or the error returned (nil: none)
    \* ---- network ACL GetLog ----
    glInput,                \* the call: the client type, and the log file of every member
    glPc,                   \* the step the call is at
    glEntries,              \* the logEntries slice
    glMu,                   \* the member whose callback holds the mutex (0: none)
    glPeer,                 \* per other member: its callback's position, answer and lines
    glContacted,            \* the members a callback has asked
    glResult,               \* the text and the error returned
    \* ---- instancesPost and the creators ----
    ipCluster,              \* the cluster: clustered, the evacuated members, the scriptlet, the instance's member
    ipHandler,              \* the handler of the request: its member, its position, what it has resolved
    ipLog,                  \* what the handlers did, in order
    \* ---- createFromMigration ----
    mgInput,                \* the request: the instance existed, start, the pool changes, push mode
    mgReq,                  \* req.Source.Refresh, whether inst is loaded, and the error of the early check
    mgPc,                   \* the step the handler or the run is at
    mgReverters,            \* the hooks of the handler's reverter and of the run's clone
    mgInst,                 \* the instance: its database record, its instance operation
    mgLog,                  \* the hooks that ran, and by which reverter
    mgResult,               \* the response of the handler and the error of the run
    \* ---- backupCreate ----
    bkInput,                \* the call: the compression, and what exists before it
    bkPc,                   \* the step backupCreate is at
    bkGo,                   \* the step the tar writer goroutine is at
    bkErr,                  \* the variable err, shared with the goroutine
    bkCompressErr,          \* the variable compressErr, shared with the goroutine
    bkPipe,                 \* the pipe: the data written and not yet read, the write end closed
    bkChan,                 \* the channel tarWriterRes: a value is being sent
    bkFs,                   \* the backup's row, the directory, the target and what was written to it
    bkReverter,             \* the hooks of the reverter
    bkLog,                  \* the hooks that ran, and whether their call succeeded
    bkResult,               \* pending, or the error returned (nil: none)
    \* ---- createFromBackup ----
    rsInput,                \* the request: the pool returns a post hook, squashfs, another name
    rsPc,                   \* the step the handler or the run is at
    rsReverters,            \* the hooks of the handler's reverter and of the run's clone
    rsState,                \* the backup file open, the volume on the pool, the rows of the instance
    rsLog,                  \* the hooks and the post hook called, in order
    rsResult,               \* the response of the handler and the error of the run
    \* ---- balanceNUMANodes ----
    nmCpu,                  \* the topology: cpu.Total and the number of NUMA nodes
    nmInsts,                \* the config of the local instances: limits.cpu, limits.cpu.nodes, volatile.cpu.nodes
    nmMu,                   \* the instance whose call holds muNUMA
    nmCall,                 \* each call of balanceNUMANodes: its step, the usage it counted, the nodes it chose, its result
    \* ---- needsNewInstanceID ----
    niInput,                \* the local config, the new and the old expanded devices and the changed keys of the call
    niResult,               \* what needsNewInstanceID returned
    \* ---- VolatileSet ----
    vsProfiles,             \* the config the profiles of the instance give
    vsLocal,                \* d.localConfig
    vsExpanded,             \* d.expandedConfig
    vsDb,                   \* the config rows of the instance in the database
    vsPersistDisable,       \* d.volatileSetPersistDisable
    vsCalls,                \* the calls of VolatileSet made
    vsLast,                 \* the last call: its changes, its outcome and the maps before it
    \* ---- devicesAdd ----
    daInput,                \* the expanded devices of the instance and whether it runs
    daPc,                   \* the position of the call
    daQueue,                \* the entries the loop has still to visit
    daReverter,             \* the hooks of the call's reverter
    daCleanup,              \* the hooks of the cleanup hook returned
    daAdded,                \* the devices that are added
    daConfig,               \* d.localConfig
    daLog,                  \* the device calls made, in order
    daResult,               \* the error the call returned
    \* ---- internalImportRootDevicePopulate ----
    rdInput,                \* the call: the pool, the local and expanded devices of backup.yaml, the profiles
    rdLocalDevices,         \* localDevices, changed in place
    rdPc,                   \* whether the call has returned
    \* ---- deferred op.Done ----
    odInput,                \* the function called and the number of snapshots to import
    odQueue,                \* the steps the function has still to take
    odErr,                  \* the variable err
    odDeferred,             \* the deferred calls of Done, each with its argument
    odLocks,                \* the locks created: pending, or the error each was completed with
    odResult,               \* the error the function returns
    \* ---- ACL Rename and Delete beside a new reference ----
    rfCall,                 \* the call: Rename with its new name, or Delete
    rfPc,                   \* where the call is
    rfRows,                 \* the name of each ACL of the project in the database
    rfUsage,                \* the types of the usages that refer to the ACL by its old name
    rfOther,                \* the operation that starts to refer to the ACL
    rfResult                \* the error the call returns

autoVars == <<instancesLastRestart, now, arLast, arCalls, arPermitted, arFirst, arLastTime>>

volatileVars == <<localConfig, vrCall, vrResult>>

devicesVars == <<duInput, duPc, duQueue, duReverter, devState, duLog, duRegistered,
                 duResult, duFaults, duPre>>

vars == <<instancesLastRestart, now, arLast, arCalls, arPermitted, arFirst, arLastTime,
          localConfig, vrCall, vrResult,
          duInput, duPc, duQueue, duReverter, devState, duLog, duRegistered,
          duResult, duFaults, duPre,
          instanceOperations, locks, status, ephemeral, procs, hook, otherOp, guestHalts,
          snInput, snPc, snRecords, snVolumes, snMounts, snReverter, snDeferred, snLog,
          snResult, snPre,
          rbInput, rbPc, rbConfig, rbRow, rbLog, rbResult, rbPre,
          avCall, avInfo, avResult,
          auUsage, auMember, auRow, auMsgs, auReplies, auLog, auUpdates,
          rnCall, rnPc, rnRows, rnName, rnUsage, rnResult,
          glInput, glPc, glEntries, glMu, glPeer, glContacted, glResult,
          ipCluster, ipHandler, ipLog,
          mgInput, mgReq, mgPc, mgReverters, mgInst, mgLog, mgResult,
          bkInput, bkPc, bkGo, bkErr, bkCompressErr, bkPipe, bkChan, bkFs, bkReverter, bkLog, bkResult,
          rsInput, rsPc, rsReverters, rsState, rsLog, rsResult,
          nmCpu, nmInsts, nmMu, nmCall,
          niInput, niResult,
          vsProfiles, vsLocal, vsExpanded, vsDb, vsPersistDisable, vsCalls, vsLast,
          daInput, daPc, daQueue, daReverter, daCleanup, daAdded, daConfig, daLog, daResult,
          rdInput, rdLocalDevices, rdPc,
          odInput, odQueue, odErr, odDeferred, odLocks, odResult,
          rfCall, rfPc, rfRows, rfUsage, rfOther, rfResult>>

lockVars == <<instanceOperations, locks, status, ephemeral, procs, hook, otherOp, guestHalts>>

\* The variables of the parts modelled after the operation lock follow.
snapVars == <<snInput, snPc, snRecords, snVolumes, snMounts, snReverter, snDeferred, snLog,
              snResult, snPre>>

rebuildVars == <<rbInput, rbPc, rbConfig, rbRow, rbLog, rbResult, rbPre>>

aclValidateVars == <<avCall, avInfo, avResult>>

aclUpdateVars == <<auUsage, auMember, auRow, auMsgs, auReplies, auLog, auUpdates>>

aclVars == <<aclValidateVars, aclUpdateVars>>

\* The variables of the parts modelled after the ACL Update follow.

aclRenameVars == <<rnCall, rnPc, rnRows, rnName, rnUsage, rnResult>>

getLogVars == <<glInput, glPc, glEntries, glMu, glPeer, glContacted, glResult>>

postVars == <<ipCluster, ipHandler, ipLog>>

migrationVars == <<mgInput, mgReq, mgPc, mgReverters, mgInst, mgLog, mgResult>>

backupVars == <<bkInput, bkPc, bkGo, bkErr, bkCompressErr, bkPipe, bkChan, bkFs,
                bkReverter, bkLog, bkResult>>

restoreVars == <<rsInput, rsPc, rsReverters, rsState, rsLog, rsResult>>

numaVars == <<nmCpu, nmInsts, nmMu, nmCall>>

instanceIdVars == <<niInput, niResult>>

volSetVars == <<vsProfiles, vsLocal, vsExpanded, vsDb, vsPersistDisable, vsCalls,
                vsLast>>

devAddVars == <<daInput, daPc, daQueue, daReverter, daCleanup, daAdded, daConfig,
                daLog, daResult>>

rootDevVars == <<rdInput, rdLocalDevices, rdPc>>

opDoneVars == <<odInput, odQueue, odErr, odDeferred, odLocks, odResult>>

aclRaceVars == <<rfCall, rfPc, rfRows, rfUsage, rfOther, rfResult>>

newerVars == <<aclRenameVars, getLogVars, postVars, migrationVars, backupVars,
               restoreVars, numaVars, instanceIdVars, volSetVars, devAddVars,
               rootDevVars, opDoneVars, aclRaceVars>>

renameRest == <<getLogVars, postVars, migrationVars, backupVars, restoreVars, numaVars,
                instanceIdVars, volSetVars, devAddVars, rootDevVars, opDoneVars,
                aclRaceVars>>

getlogRest == <<aclRenameVars, postVars, migrationVars, backupVars, restoreVars,
                numaVars, instanceIdVars, volSetVars, devAddVars, rootDevVars,
                opDoneVars, aclRaceVars>>

postRest == <<aclRenameVars, getLogVars, migrationVars, backupVars, restoreVars,
              numaVars, instanceIdVars, volSetVars, devAddVars, rootDevVars,
              opDoneVars, aclRaceVars>>

migrationRest == <<aclRenameVars, getLogVars, postVars, backupVars, restoreVars,
                   numaVars, instanceIdVars, volSetVars, devAddVars, rootDevVars,
                   opDoneVars, aclRaceVars>>

backupRest == <<aclRenameVars, getLogVars, postVars, migrationVars, restoreVars,
                numaVars, instanceIdVars, volSetVars, devAddVars, rootDevVars,
                opDoneVars, aclRaceVars>>

restoreRest == <<aclRenameVars, getLogVars, postVars, migrationVars, backupVars,
                 numaVars, instanceIdVars, volSetVars, devAddVars, rootDevVars,
                 opDoneVars, aclRaceVars>>

numaRest == <<aclRenameVars, getLogVars, postVars, migrationVars, backupVars,
              restoreVars, instanceIdVars, volSetVars, devAddVars, rootDevVars,
              opDoneVars, aclRaceVars>>

instanceidRest == <<aclRenameVars, getLogVars, postVars, migrationVars, backupVars,
                    restoreVars, numaVars, volSetVars, devAddVars, rootDevVars,
                    opDoneVars, aclRaceVars>>

volsetRest == <<aclRenameVars, getLogVars, postVars, migrationVars, backupVars,
                restoreVars, numaVars, instanceIdVars, devAddVars, rootDevVars,
                opDoneVars, aclRaceVars>>

devaddRest == <<aclRenameVars, getLogVars, postVars, migrationVars, backupVars,
                restoreVars, numaVars, instanceIdVars, volSetVars, rootDevVars,
                opDoneVars, aclRaceVars>>

rootdevRest == <<aclRenameVars, getLogVars, postVars, migrationVars, backupVars,
                 restoreVars, numaVars, instanceIdVars, volSetVars, devAddVars,
                 opDoneVars, aclRaceVars>>

opdoneRest == <<aclRenameVars, getLogVars, postVars, migrationVars, backupVars,
                restoreVars, numaVars, instanceIdVars, volSetVars, devAddVars,
                rootDevVars, aclRaceVars>>

aclraceRest == <<aclRenameVars, getLogVars, postVars, migrationVars, backupVars,
                 restoreVars, numaVars, instanceIdVars, volSetVars, devAddVars,
                 rootDevVars, opDoneVars>>

laterVars == <<snapVars, rebuildVars, aclVars, newerVars>>

firstVars == <<autoVars, volatileVars, devicesVars, lockVars>>

Min(a, b) == IF a <= b THEN a ELSE b

(***************************************************************************)
(* Config maps, strings, VolatileSet and deviceVolatileReset               *)
(*                                                                         *)
(* A string is a sequence of tokens; "." is a token of its own, so that    *)
(* prefixes are compared as strings.HasPrefix compares them.               *)
(***************************************************************************)

\* m[k] of a Go map: the zero value "" for a missing key.
MapGet(m, k) == IF k \in DOMAIN m THEN m[k] ELSE ""

\* strings.HasPrefix(s, p)
HasPrefix(s, p) == Len(s) >= Len(p) /\ SubSeq(s, 1, Len(p)) = p

\* strings.TrimPrefix(s, p)
TrimPrefix(s, p) == IF HasPrefix(s, p) THEN SubSeq(s, Len(p) + 1, Len(s)) ELSE s

\* internalInstance.ConfigVolatilePrefix, "volatile."
ConfigVolatilePrefix == <<"volatile", ".">>

\* fmt.Sprintf("volatile.%s.", devName)
DevicePrefix(devName) == <<"volatile", ".">> \o devName \o <<".">>

\* The device names of the model: "eth0" and "eth01" (one a prefix of the other).
DevNameEth0 == <<"eth0">>
DevNameEth01 == <<"eth0", "1">>
DevNames == {DevNameEth0, DevNameEth01}

\* The config keys an instance of the model may hold.
ConfigKeys ==
    { DevicePrefix(DevNameEth0) \o <<"hwaddr">>,
      DevicePrefix(DevNameEth0) \o <<"name">>,
      DevicePrefix(DevNameEth0) \o <<"host_name">>,
      DevicePrefix(DevNameEth01) \o <<"hwaddr">>,
      DevicePrefix(DevNameEth01) \o <<"host_name">>,
      <<"volatile", ".", "uuid">>,
      <<"user", ".", "eth0", ".", "hwaddr">> }

\* The managed networks of the model and the NIC type each resolves to.
NetworkNICTypes == (<<"net0">> :> "bridged")

\* Device configs: maps from key to value. NilDevice is the nil map.
NilDevice == <<>>
DevNicBridged == (<<"type">> :> "nic") @@ (<<"nictype">> :> "bridged") @@ (<<"hwaddr">> :> "aa")
DevNicBridgedNamed == (<<"type">> :> "nic") @@ (<<"nictype">> :> "bridged") @@ (<<"name">> :> "e0")
DevNicMacvlan == (<<"type">> :> "nic") @@ (<<"nictype">> :> "macvlan") @@ (<<"hwaddr">> :> "aa")
DevNicNetwork == (<<"type">> :> "nic") @@ (<<"network">> :> <<"net0">>) @@ (<<"hwaddr">> :> "bb")
DevNicNoNetwork == (<<"type">> :> "nic") @@ (<<"network">> :> <<"gone">>)
DevDisk == (<<"type">> :> "disk") @@ (<<"path">> :> "/mnt") @@ (<<"name">> :> "x")

RealDevices == {DevNicBridged, DevNicBridgedNamed, DevNicMacvlan, DevNicNetwork,
                DevNicNoNetwork, DevDisk}

\* nictype.NICType: a nic with a "network" resolves its type from the network (an
\* error when it cannot be loaded); anything else has the type of its "nictype".
NICType(dev) ==
    IF MapGet(dev, <<"type">>) = "nic" /\ MapGet(dev, <<"network">>) # ""
    THEN IF dev[<<"network">>] \in DOMAIN NetworkNICTypes
         THEN [err |-> FALSE, nictype |-> NetworkNICTypes[dev[<<"network">>]]]
         ELSE [err |-> TRUE, nictype |-> ""]
    ELSE [err |-> FALSE, nictype |-> MapGet(dev, <<"nictype">>)]

\* The mutation that stores the empty values instead of deleting their keys.
VolatileSetKeepsEmpty(config, changes, persist, dbOk) ==
    IF \E key \in DOMAIN changes : ~HasPrefix(key, ConfigVolatilePrefix)
    THEN [err |-> TRUE, config |-> config]
    ELSE IF persist /\ ~dbOk
    THEN [err |-> TRUE, config |-> config]
    ELSE [err |-> FALSE,
          config |-> [k \in DOMAIN config \cup DOMAIN changes |->
                         IF k \in DOMAIN changes THEN changes[k] ELSE config[k]]]

\* VolatileSet: the error and the local config after the call. dbOk is the outcome
\* of the DB transaction (taken only when persisting is not disabled).
VolatileSet(config, changes, persist, dbOk) ==
    IF \E key \in DOMAIN changes : ~HasPrefix(key, ConfigVolatilePrefix)
    THEN [err |-> TRUE, config |-> config]
    ELSE IF persist /\ ~dbOk
    THEN [err |-> TRUE, config |-> config]
    ELSE [err |-> FALSE,
          config |-> [k \in (DOMAIN config \ {c \in DOMAIN changes : changes[c] = ""})
                               \cup {c \in DOMAIN changes : changes[c] # ""} |->
                         IF k \in DOMAIN changes THEN changes[k] ELSE config[k]]]

\* The mutation that forgets the NIC type comparison.
DeviceVolatileResetTypeOnly(config, devName, oldConfig, newConfig, dbOk) ==
    LET devicePrefix == DevicePrefix(devName)
        newNICType == NICType(newConfig)
        oldNICType == NICType(oldConfig)
        mine == {k \in DOMAIN config : HasPrefix(k, devicePrefix)}
    IN  IF newNICType.err \/ oldNICType.err THEN [err |-> TRUE, config |-> config]
        ELSE IF MapGet(newConfig, <<"type">>) # MapGet(oldConfig, <<"type">>)
        THEN VolatileSet(config, [k \in mine |-> ""], TRUE, dbOk)
        ELSE VolatileSet(config,
                 [k \in {m \in mine : TrimPrefix(m, devicePrefix) \in DOMAIN newConfig} |-> ""],
                 TRUE, dbOk)

\* The mutation that clears every volatile key of the device in both cases.
DeviceVolatileResetAll(config, devName, oldConfig, newConfig, dbOk) ==
    LET devicePrefix == DevicePrefix(devName)
        newNICType == NICType(newConfig)
        oldNICType == NICType(oldConfig)
        mine == {k \in DOMAIN config : HasPrefix(k, devicePrefix)}
    IN  IF newNICType.err \/ oldNICType.err THEN [err |-> TRUE, config |-> config]
        ELSE VolatileSet(config, [k \in mine |-> ""], TRUE, dbOk)

\* deviceVolatileReset: the error and the local config after the call.
DeviceVolatileReset(config, devName, oldConfig, newConfig, dbOk) ==
    LET devicePrefix == DevicePrefix(devName)
        newNICType == NICType(newConfig)
        oldNICType == NICType(oldConfig)
        mine == {k \in DOMAIN config : HasPrefix(k, devicePrefix)}
    IN  IF newNICType.err \/ oldNICType.err THEN [err |-> TRUE, config |-> config]
        ELSE IF \/ MapGet(newConfig, <<"type">>) # MapGet(oldConfig, <<"type">>)
                \/ newNICType.nictype # oldNICType.nictype
        THEN VolatileSet(config, [k \in mine |-> ""], TRUE, dbOk)
        ELSE VolatileSet(config,
                 [k \in {m \in mine : TrimPrefix(m, devicePrefix) \in DOMAIN newConfig} |-> ""],
                 TRUE, dbOk)

\* The volatile-reset state when no call is modelled.
VolatileIdle ==
    /\ localConfig = <<>>
    /\ vrCall = [devName |-> DevNameEth0, oldConfig |-> DevNicBridged, newConfig |-> NilDevice]
    /\ vrResult = [state |-> "idle"]

\* Any local config, device name and pair of device configs.
VolatileStart ==
    /\ \E keys \in SUBSET ConfigKeys : localConfig = [k \in keys |-> "v"]
    /\ \E n \in DevNames, o \in RealDevices, c \in RealDevices \cup {NilDevice} :
          vrCall = [devName |-> n, oldConfig |-> o, newConfig |-> c]
    /\ vrResult = [state |-> "pending"]

\* d.deviceVolatileReset(devName, oldConfig, newConfig)
DeviceVolatileResetCall ==
    /\ vrResult.state = "pending"
    /\ \E dbOk \in BOOLEAN :
          LET r == DeviceVolatileReset(localConfig, vrCall.devName, vrCall.oldConfig,
                                       vrCall.newConfig, dbOk)
          IN  /\ localConfig' = r.config
              /\ vrResult' = [state |-> IF r.err THEN "error" ELSE "ok", before |-> localConfig]
    /\ UNCHANGED vrCall
    /\ UNCHANGED <<autoVars, devicesVars, lockVars, laterVars>>

NextVolatile == DeviceVolatileResetCall

\* ---- properties of deviceVolatileReset ----

\* k is "volatile.<devName>." followed by some (possibly empty) rest.
IsDeviceVolatileKey(k, devName) ==
    \E n \in 0..Len(k) : k = <<"volatile", ".">> \o devName \o <<".">> \o SubSeq(k, n + 1, Len(k))

\* The <k> of a key volatile.<devName>.<k>.
DeviceKeyOf(k, devName) == SubSeq(k, Len(devName) + 4, Len(k))

\* The type or the NIC type of the two configs differ.
TypeChanged(oldConfig, newConfig) ==
    \/ MapGet(newConfig, <<"type">>) # MapGet(oldConfig, <<"type">>)
    \/ NICType(newConfig).nictype # NICType(oldConfig).nictype

\* C10: after a deviceVolatileReset that returned no error: if the type or the NIC
\* type of the new config differs from the old one's (the new config may be empty),
\* every key volatile.<devName>.* is gone; if they are the same, exactly the keys
\* volatile.<devName>.<k> with <k> a key of the new config are gone; every other key
\* is kept with its value.
C10_VolatileReset ==
    vrResult.state = "ok" =>
        LET before == vrResult.before
            n == vrCall.devName
            gone == IF TypeChanged(vrCall.oldConfig, vrCall.newConfig)
                    THEN {k \in DOMAIN before : IsDeviceVolatileKey(k, n)}
                    ELSE {k \in DOMAIN before :
                             /\ IsDeviceVolatileKey(k, n)
                             /\ DeviceKeyOf(k, n) \in DOMAIN vrCall.newConfig}
        IN  /\ DOMAIN localConfig = DOMAIN before \ gone
            /\ \A k \in DOMAIN localConfig : localConfig[k] = before[k]

\* C10 witness: a same-type reset that removed one volatile key of the device and
\* kept another one of the same device.
C10_Witness ==
    /\ vrResult.state = "ok"
    /\ ~TypeChanged(vrCall.oldConfig, vrCall.newConfig)
    /\ \E k \in DOMAIN vrResult.before :
          IsDeviceVolatileKey(k, vrCall.devName) /\ k \notin DOMAIN localConfig
    /\ \E k \in DOMAIN localConfig : IsDeviceVolatileKey(k, vrCall.devName)

\* A NIC-type change alone (same type) cleared every volatile key of the device.
C10_WitnessNicType ==
    /\ vrResult.state = "ok"
    /\ MapGet(vrCall.newConfig, <<"type">>) = MapGet(vrCall.oldConfig, <<"type">>)
    /\ TypeChanged(vrCall.oldConfig, vrCall.newConfig)
    /\ \E k \in DOMAIN vrResult.before : k \notin DOMAIN localConfig

(***************************************************************************)
(* Auto-restart budget                                                     *)
(***************************************************************************)

\* Length of the [10]time.Time array of instancesLastRestart.
NSlots == 10

\* time.Minute, in clock ticks of the model.
Minute == 2

\* Bounds of the auto-restart specification.
MaxTime == 4
MaxCalls == 12
MaxOtherCalls == 2

\* The ids of the instances of the process; instance 1 is the one the call
\* sequences are driven on, the other one interleaves a few calls.
InstanceIds == {1, 2}

CallBudget(id) == IF id = 1 THEN MaxCalls ELSE MaxOtherCalls

\* The zero time.Time; time.Now() never returns it (the clock starts at 1).
ZeroTime == 0

IsZero(t) == t = ZeroTime

\* a.Before(b)
Before(a, b) == a < b

EmptyTimestamps == [i \in 1..NSlots |-> ZeroTime]

\* The index of the first unused slot, 0 when all slots are used.
FirstZeroSlot(ts) ==
    IF \E i \in 1..NSlots : IsZero(ts[i])
    THEN CHOOSE i \in 1..NSlots : IsZero(ts[i]) /\ \A j \in 1..(i-1) : ~IsZero(ts[j])
    ELSE 0

\* The loop's oldestIndex after visiting slots i..NSlots, starting from oldest.
RECURSIVE OldestIndex(_, _, _)
OldestIndex(ts, i, oldest) ==
    IF i > NSlots THEN oldest
    ELSE OldestIndex(ts, i + 1, IF Before(ts[i], ts[oldest]) THEN i ELSE oldest)

\* The mutation a wrong comparison would make: the window test is not strict.
AutoRestartDecisionLax(present, ts, t) ==
    IF ~present
    THEN [ok |-> TRUE, ts |-> [EmptyTimestamps EXCEPT ![1] = t]]
    ELSE LET z == FirstZeroSlot(ts)
             o == OldestIndex(ts, 1, 1)
         IN  IF z # 0 THEN [ok |-> TRUE, ts |-> [ts EXCEPT ![z] = t]]
             ELSE IF ts[o] <= t - Minute
                  THEN [ok |-> TRUE, ts |-> [ts EXCEPT ![o] = t]]
                  ELSE [ok |-> FALSE, ts |-> ts]

\* The mutation a lost write-back would make: the array copy is never stored.
AutoRestartDecisionNoStore(present, ts, t) ==
    IF ~present
    THEN [ok |-> TRUE, ts |-> [EmptyTimestamps EXCEPT ![1] = t]]
    ELSE LET z == FirstZeroSlot(ts)
             o == OldestIndex(ts, 1, 1)
         IN  IF z # 0 THEN [ok |-> TRUE, ts |-> ts]
             ELSE IF Before(ts[o], t - Minute)
                  THEN [ok |-> TRUE, ts |-> [ts EXCEPT ![o] = t]]
                  ELSE [ok |-> FALSE, ts |-> ts]

\* shouldAutoRestart past the boot.autorestart test, under muInstancesLastRestart:
\* the result and the array stored for the instance.
AutoRestartDecision(present, ts, t) ==
    IF ~present
    THEN [ok |-> TRUE, ts |-> [EmptyTimestamps EXCEPT ![1] = t]]
    ELSE LET z == FirstZeroSlot(ts)
             o == OldestIndex(ts, 1, 1)
         IN  IF z # 0 THEN [ok |-> TRUE, ts |-> [ts EXCEPT ![z] = t]]
             ELSE IF Before(ts[o], t - Minute)
                  THEN [ok |-> TRUE, ts |-> [ts EXCEPT ![o] = t]]
                  ELSE [ok |-> FALSE, ts |-> ts]

\* The history of an instance as the map lookup gives it.
History(m, id) == IF id \in DOMAIN m THEN m[id] ELSE EmptyTimestamps

\* The auto-restart state of a freshly started process.
AutoIdle ==
    /\ instancesLastRestart = <<>>
    /\ now = 1
    /\ arLast = [kind |-> "none"]
    /\ arCalls = [i \in InstanceIds |-> 0]
    /\ arPermitted = [i \in InstanceIds |-> 0]
    /\ arFirst = [i \in InstanceIds |-> 0]
    /\ arLastTime = [i \in InstanceIds |-> 0]

\* shouldAutoRestart on an instance whose boot.autorestart is not true.
ShouldAutoRestartDisabled(id) ==
    /\ arLast' = [kind |-> "call", id |-> id, auto |-> FALSE, ok |-> FALSE,
                  at |-> now, present |-> id \in DOMAIN instancesLastRestart,
                  before |-> History(instancesLastRestart, id)]
    /\ UNCHANGED <<instancesLastRestart, now, arCalls, arPermitted, arFirst, arLastTime>>
    /\ UNCHANGED <<volatileVars, devicesVars, lockVars, laterVars>>

\* shouldAutoRestart on an instance whose boot.autorestart is true.
ShouldAutoRestart(id) ==
    /\ arCalls[id] < CallBudget(id)
    /\ LET present == id \in DOMAIN instancesLastRestart
           before == History(instancesLastRestart, id)
           r == AutoRestartDecision(present, before, now)
       IN  /\ instancesLastRestart' =
                 IF r.ok
                 THEN [k \in DOMAIN instancesLastRestart \cup {id} |->
                          IF k = id THEN r.ts ELSE instancesLastRestart[k]]
                 ELSE instancesLastRestart
           /\ arLast' = [kind |-> "call", id |-> id, auto |-> TRUE, ok |-> r.ok,
                         at |-> now, present |-> present, before |-> before]
           /\ arCalls' = [arCalls EXCEPT ![id] = @ + 1]
           /\ arPermitted' = [arPermitted EXCEPT ![id] = IF r.ok THEN @ + 1 ELSE @]
           /\ arFirst' = [arFirst EXCEPT ![id] = IF @ = 0 THEN now ELSE @]
           /\ arLastTime' = [arLastTime EXCEPT ![id] = now]
    /\ UNCHANGED now
    /\ UNCHANGED <<volatileVars, devicesVars, lockVars, laterVars>>

\* Time passes.
Tick ==
    /\ now < MaxTime
    /\ now' = now + 1
    /\ UNCHANGED <<instancesLastRestart, arLast, arCalls, arPermitted, arFirst, arLastTime>>
    /\ UNCHANGED <<volatileVars, devicesVars, lockVars, laterVars>>

NextAuto ==
    \/ \E id \in InstanceIds : ShouldAutoRestart(id)
    \/ \E id \in InstanceIds : ShouldAutoRestartDisabled(id)
    \/ Tick


\* ---- properties of the auto-restart budget ----

FilledSlots(ts) == {i \in 1..NSlots : ~IsZero(ts[i])}

\* The earliest recorded timestamp of a history with at least one filled slot.
OldestTime(ts) ==
    CHOOSE t \in {ts[i] : i \in FilledSlots(ts)} : \A i \in FilledSlots(ts) : t <= ts[i]

\* The budget rule as the specification words it.
BudgetPermits(ts, t) ==
    \/ Cardinality(FilledSlots(ts)) < NSlots
    \/ t - OldestTime(ts) > Minute

\* C5: with boot.autorestart true, shouldAutoRestart permits the restart iff fewer
\* than 10 slots are filled or the oldest recorded timestamp is more than one minute
\* old; a permitted call writes the current time into a free slot or over the oldest
\* timestamp and changes nothing else; a refused call leaves the history unchanged.
C5_BudgetRule ==
    (arLast.kind = "call" /\ arLast.auto) =>
        LET b == arLast.before
            a == History(instancesLastRestart, arLast.id)
        IN  /\ arLast.ok <=> BudgetPermits(b, arLast.at)
            /\ arLast.ok =>
                 \E j \in 1..NSlots :
                    /\ a = [b EXCEPT ![j] = arLast.at]
                    /\ \/ IsZero(b[j])
                       \/ /\ Cardinality(FilledSlots(b)) = NSlots
                          /\ b[j] = OldestTime(b)
            /\ ~arLast.ok =>
                 /\ a = b
                 /\ (arLast.id \in DOMAIN instancesLastRestart) = arLast.present

\* C5 witness: a call on a full history was permitted because the oldest entry had
\* aged out, and it replaced that entry.
C5_Witness ==
    /\ arLast.kind = "call" /\ arLast.auto /\ arLast.ok
    /\ Cardinality(FilledSlots(arLast.before)) = NSlots
    /\ arLast.at - OldestTime(arLast.before) > Minute

\* C6: for an instance whose calls (made with boot.autorestart true, from an empty
\* history) all fall within one minute, exactly min(N, 10) of the N calls were
\* permitted, whatever calls for other instances were interleaved.
C6_PermittedIsMin ==
    \A id \in InstanceIds :
        (arCalls[id] > 0 /\ arLastTime[id] - arFirst[id] <= Minute) =>
            arPermitted[id] = Min(arCalls[id], NSlots)

\* C6 witness: more than 10 calls within one minute on instance 1, 10 of them
\* permitted, with calls for instance 2 in between.
C6_Witness ==
    /\ arCalls[1] > NSlots
    /\ arLastTime[1] - arFirst[1] = Minute
    /\ arPermitted[1] = NSlots
    /\ arCalls[2] > 0
    /\ arFirst[2] > arFirst[1]

(***************************************************************************)
(* devicesUpdate                                                           *)
(***************************************************************************)

\* Bounds: the number of devices of the instance, and the number of device calls
\* of one devicesUpdate that do not succeed.
NDev == 3
MaxFaults == 1

DevIds == 1..NDev

\* The devices' names: "eth0", "eth01", "z", "eth2".
DevNameOf(d) == <<DevNameEth0, DevNameEth01, <<"z">>, <<"eth2">>>>[d]

\* The rank of each device name in string order (eth0 < eth01 < eth2 < z).
NameRank(d) == <<1, 2, 4, 3>>[d]

\* The strings of the device configs that are compared, in string order.
StringOrder == <<"/", "/mnt", "/srv", "disk", "nic">>

StrLess(a, b) ==
    \E i, j \in 1..Len(StringOrder) : StringOrder[i] = a /\ StringOrder[j] = b /\ i < j

DevRootDisk == (<<"type">> :> "disk") @@ (<<"path">> :> "/")
DevDiskMoved == (<<"type">> :> "disk") @@ (<<"path">> :> "/srv") @@ (<<"name">> :> "x")
DevNicBridgedNew == (<<"type">> :> "nic") @@ (<<"nictype">> :> "bridged") @@ (<<"hwaddr">> :> "cc")

\* The change an Update makes to a device: remove it, add it, remove it and add it
\* back with a changed config (readd), update it in place.
Changes == {"remove", "add", "readd", "update"}

\* Device 3 is a disk, the others are NICs.
OldConfig(d) == IF d = 3 THEN DevDisk ELSE DevNicBridged

\* The config a device is added with. A device added back keeps its type (devices 1
\* and 3), becomes a disk (device 2) or changes its NIC type only (device 4).
NewConfig(d, change) ==
    IF change = "readd"
    THEN <<DevNicBridgedNew, DevDiskMoved, DevDiskMoved, DevNicMacvlan>>[d]
    ELSE OldConfig(d)

\* removeDevices, addDevices and updateDevices of a call, as entries (name, config).
RemoveDevices(input) ==
    {[name |-> d, config |-> OldConfig(d)] :
        d \in {x \in DevIds : input.change[x] \in {"remove", "readd"}}}

AddDevices(input) ==
    {[name |-> d, config |-> NewConfig(d, input.change[d])] :
        d \in {x \in DevIds : input.change[x] \in {"add", "readd"}}}

UpdateDevices(input) ==
    {[name |-> d, config |-> OldConfig(d)] :
        d \in {x \in DevIds : input.change[x] = "update"}}

\* addDevices[name]: the nil device when the name is not in the map.
AddDevicesGet(input, d) ==
    IF input.change[d] \in {"add", "readd"}
    THEN NewConfig(d, input.change[d]) ELSE NilDevice

\* DevicesSortable.Less: by type, then disks by path (the root disk first), then by name.
DevLess(a, b) ==
    LET ta == MapGet(a.config, <<"type">>)
        tb == MapGet(b.config, <<"type">>)
        pa == MapGet(a.config, <<"path">>)
        pb == MapGet(b.config, <<"path">>)
    IN  IF ta # tb THEN StrLess(ta, tb)
        ELSE IF ta = "disk" /\ pa # pb
             THEN IF pa = "/" THEN TRUE
                  ELSE IF pb = "/" THEN FALSE
                  ELSE StrLess(pa, pb)
        ELSE NameRank(a.name) < NameRank(b.name)

\* Devices.Sorted(): the entries in ascending order.
RECURSIVE Sorted(_)
Sorted(entries) ==
    IF entries = {} THEN <<>>
    ELSE LET first == CHOOSE e \in entries : \A o \in entries \ {e} : DevLess(e, o)
         IN  <<first>> \o Sorted(entries \ {first})

\* Devices.Reversed(): the entries in descending order.
RECURSIVE Reversed(_)
Reversed(entries) ==
    IF entries = {} THEN <<>>
    ELSE LET last == CHOOSE e \in entries : \A o \in entries \ {e} : DevLess(o, e)
         IN  <<last>> \o Reversed(entries \ {last})

\* The order in which the three loops visit their entries.
\* The variant that removes in the order devices are added in.
RemoveOrderAscending(input) == Sorted(RemoveDevices(input))

RemoveOrder(input) == Reversed(RemoveDevices(input))

AddOrder(input) == Sorted(AddDevices(input))

UpdateOrder(input) == Sorted(UpdateDevices(input))

\* deviceLoad: ok (device, no error), unsupported (no device, ErrUnsupportedDevType),
\* invalid (device and a validation error), failed (no device, an error).
LoadOutcomes == {"ok", "unsupported", "invalid", "failed"}

\* A device call: it succeeds, fails, or returns device.ErrUnsupportedDevType.
CallOutcomes == {"ok", "fail", "unsupported"}

\* The outcomes of a tuple of device calls that are not a success.
Faults(outcomes) == Cardinality({i \in 1..Len(outcomes) : outcomes[i] # "ok"})

\* The outcome of a DB write as a call outcome.
DbOutcome(dbOk) == IF dbOk THEN "ok" ELSE "fail"

\* The calls of a step stay within the fault budget.
WithinFaults(outcomes) ==
    /\ duFaults + Faults(outcomes) <= MaxFaults
    /\ duFaults' = duFaults + Faults(outcomes)

\* A device operation of the call, with its outcome.
Event(op, d, phase, res) == [op |-> op, dev |-> d, phase |-> phase, res |-> res]

Hook(kind, d) == [kind |-> kind, dev |-> d]

\* One pass of the remove loop for entry e: the operations made, the device state
\* and local config after it, and the error that ends the call ("" for none).
RemoveEntry(e, input, ds, config, load, stop, rem, dbOk) ==
    LET d == e.name
        running == input.running
        loaded == [ev |-> <<Event("load", d, "remove", load)>>]
        hasDev == load \in {"ok", "invalid"}
        stopped == hasDev /\ running
        stopEv == IF stopped THEN <<Event("stop", d, "remove", stop)>> ELSE <<>>
        ds1 == IF stopped /\ stop = "ok" THEN [ds EXCEPT ![d].started = FALSE] ELSE ds
        remEv == <<Event("remove", d, "remove", rem)>>
        ds2 == IF rem = "ok" THEN [ds1 EXCEPT ![d].present = FALSE] ELSE ds1
        reset == DeviceVolatileReset(config, DevNameOf(d), e.config, AddDevicesGet(input, d), dbOk)
        resetEv == <<Event("reset", d, "remove", IF reset.err THEN "fail" ELSE "ok")>>
    IN  IF load = "unsupported"
        THEN [events |-> loaded.ev, devState |-> ds, config |-> config, err |-> ""]
        ELSE IF stopped /\ stop # "ok"
        THEN [events |-> loaded.ev \o stopEv, devState |-> ds, config |-> config,
              err |-> "stopFailed"]
        ELSE IF hasDev /\ rem = "fail"
        THEN [events |-> loaded.ev \o stopEv \o remEv, devState |-> ds1, config |-> config,
              err |-> "removeFailed"]
        ELSE LET evs == loaded.ev \o stopEv \o (IF hasDev THEN remEv ELSE <<>>) \o resetEv
                 dsr == IF hasDev THEN ds2 ELSE ds
             IN  IF reset.err
                 THEN [events |-> evs, devState |-> dsr, config |-> config,
                       err |-> "resetFailed"]
                 ELSE [events |-> evs, devState |-> dsr, config |-> reset.config, err |-> ""]

\* One pass of the add loop for entry e: also the revert hooks it registers.
AddEntry(e, input, ds, config, load, add, pre, start, dbOk) ==
    LET d == e.name
        running == input.running
        loadEv == <<Event("load", d, "add", load)>>
        addEv == <<Event("add", d, "add", add)>>
        ds1 == IF add = "ok" THEN [ds EXCEPT ![d].present = TRUE] ELSE ds
        preEv == <<Event("precheck", d, "add", pre)>>
        startEv == <<Event("start", d, "add", start)>>
        ds2 == IF start = "ok" THEN [ds1 EXCEPT ![d].started = TRUE] ELSE ds1
        reset == DeviceVolatileReset(config, DevNameOf(d), e.config, NilDevice, dbOk)
    IN  IF load = "unsupported"
        THEN [events |-> loadEv, devState |-> ds, config |-> config, hooks |-> <<>>, err |-> ""]
        ELSE IF load # "ok"
        THEN IF input.userRequested
             THEN [events |-> loadEv \o <<Event("reset", d, "add", IF reset.err THEN "fail" ELSE "ok")>>,
                   devState |-> ds, config |-> reset.config, hooks |-> <<>>,
                   err |-> "addValidation"]
             ELSE [events |-> loadEv, devState |-> ds, config |-> config, hooks |-> <<>>,
                   err |-> ""]
        ELSE IF add # "ok" /\ input.userRequested
        THEN [events |-> loadEv \o addEv, devState |-> ds, config |-> config, hooks |-> <<>>,
              err |-> "addFailed"]
        ELSE IF ~running
        THEN [events |-> loadEv \o addEv, devState |-> ds1, config |-> config,
              hooks |-> <<Hook("remove", d)>>, err |-> ""]
        ELSE IF pre # "ok"
        THEN [events |-> loadEv \o addEv \o preEv, devState |-> ds1, config |-> config,
              hooks |-> <<Hook("remove", d)>>, err |-> "preStartFailed"]
        ELSE IF start = "fail"
        THEN [events |-> loadEv \o addEv \o preEv \o startEv, devState |-> ds1,
              config |-> config, hooks |-> <<Hook("remove", d)>>, err |-> "startFailed"]
        ELSE [events |-> loadEv \o addEv \o preEv \o startEv, devState |-> ds2,
              config |-> config, hooks |-> <<Hook("remove", d), Hook("stop", d)>>, err |-> ""]

\* One pass of the update loop for entry e.
UpdateEntry(e, input, ds, load, stop, rem, upd) ==
    LET d == e.name
        running == input.running
        loadEv == <<Event("load", d, "update", load)>>
        hasDev == load = "invalid"
        stopEv == IF hasDev /\ running
                  THEN <<Event("stop", d, "update", stop)>> ELSE <<>>
        ds1 == IF hasDev /\ running /\ stop = "ok" THEN [ds EXCEPT ![d].started = FALSE] ELSE ds
        remEv == IF hasDev THEN <<Event("remove", d, "update", rem)>> ELSE <<>>
        ds2 == IF hasDev /\ rem = "ok" THEN [ds1 EXCEPT ![d].present = FALSE] ELSE ds1
    IN  IF load = "unsupported"
        THEN [events |-> loadEv, devState |-> ds, err |-> ""]
        ELSE IF load # "ok"
        THEN IF input.userRequested
             THEN [events |-> loadEv, devState |-> ds, err |-> "updateValidation"]
             ELSE [events |-> loadEv \o stopEv \o remEv, devState |-> ds2, err |-> ""]
        ELSE [events |-> loadEv \o <<Event("update", d, "update", upd)>>,
              devState |-> ds,
              err |-> IF upd = "ok" THEN "" ELSE "updateFailed"]

\* The loop that follows `phase`, skipping loops with nothing to visit.
RECURSIVE Advance(_, _)
Advance(phase, input) ==
    CASE phase = "remove" ->
            IF RemoveDevices(input) # {}
            THEN [pc |-> "remove", queue |-> RemoveOrder(input)]
            ELSE Advance("add", input)
      [] phase = "add" ->
            IF AddDevices(input) # {}
            THEN [pc |-> "add", queue |-> AddOrder(input)]
            ELSE Advance("update", input)
      [] phase = "update" ->
            IF UpdateDevices(input) # {}
            THEN [pc |-> "update", queue |-> UpdateOrder(input)]
            ELSE [pc |-> "success", queue |-> <<>>]

FollowingPhase(phase) == IF phase = "remove" THEN "add" ELSE "update"

\* The loop position after an entry was visited without error.
AfterEntry(phase, queue, input) ==
    IF Len(queue) > 1 THEN [pc |-> phase, queue |-> Tail(queue)]
    ELSE IF phase = "update" THEN [pc |-> "success", queue |-> <<>>]
    ELSE Advance(FollowingPhase(phase), input)

\* The devices state when no call is modelled.
DevicesIdle ==
    /\ duInput = [change |-> [d \in DevIds |-> "update"], running |-> FALSE,
                  userRequested |-> FALSE]
    /\ duPc = "idle"
    /\ duQueue = <<>>
    /\ duReverter = <<>>
    /\ devState = [d \in DevIds |-> [present |-> FALSE, started |-> FALSE]]
    /\ duLog = <<>>
    /\ duRegistered = {}
    /\ duResult = "none"
    /\ duFaults = 0
    /\ duPre = [devState |-> [d \in DevIds |-> [present |-> FALSE, started |-> FALSE]],
                config |-> <<>>]

\* Whether a device exists before the update that makes `change` to it.
PresentBefore(change) == change \in {"remove", "readd", "update"}

\* The local config of an instance with the given present devices: each has the
\* volatile keys hwaddr and host_name.
ConfigOf(present) ==
    [k \in UNION {{DevicePrefix(DevNameOf(d)) \o <<"hwaddr">>,
                   DevicePrefix(DevNameOf(d)) \o <<"host_name">>} : d \in present} |-> "v"]

\* devicesUpdate is called with any change set, on a running or stopped instance:
\* the devices that exist are added, and started when the instance runs.
DevicesStart ==
    /\ \E change \in [DevIds -> Changes], running \in BOOLEAN, userRequested \in BOOLEAN :
          /\ duInput = [change |-> change, running |-> running,
                        userRequested |-> userRequested]
          /\ devState = [d \in DevIds |->
                           [present |-> PresentBefore(change[d]),
                            started |-> PresentBefore(change[d]) /\ running]]
          /\ localConfig = ConfigOf({d \in DevIds : PresentBefore(change[d])})
    /\ vrCall = [devName |-> DevNameEth0, oldConfig |-> DevNicBridged, newConfig |-> NilDevice]
    /\ vrResult = [state |-> "idle"]
    /\ duPc = "start"
    /\ duQueue = <<>>
    /\ duReverter = <<>>
    /\ duLog = <<>>
    /\ duRegistered = {}
    /\ duResult = "none"
    /\ duFaults = 0
    /\ duPre = [devState |-> devState, config |-> localConfig]

\* The call begins: reverter := revert.New(), then the first loop.
DuBegin ==
    /\ duPc = "start"
    /\ LET nxt == Advance("remove", duInput)
       IN  /\ duPc' = nxt.pc
           /\ duQueue' = nxt.queue
    /\ UNCHANGED <<duInput, duReverter, devState, duLog, duRegistered, duResult, duFaults,
                   duPre>>
    /\ UNCHANGED <<autoVars, volatileVars, lockVars, laterVars>>

\* The position after an entry: the next entry or loop, or the deferred Fail.
DuContinue(err) ==
    IF err = ""
    THEN LET nxt == AfterEntry(duPc, duQueue, duInput)
         IN  /\ duPc' = nxt.pc
             /\ duQueue' = nxt.queue
             /\ duResult' = duResult
    ELSE /\ duPc' = "revert"
         /\ duQueue' = <<>>
         /\ duResult' = err

\* The remove loop visits its next entry.
DuRemoveStep ==
    /\ duPc = "remove"
    /\ \E load \in LoadOutcomes, stop \in {"ok", "fail"}, rem \in CallOutcomes,
          dbOk \in BOOLEAN :
          LET r == RemoveEntry(Head(duQueue), duInput, devState, localConfig,
                               load, stop, rem, dbOk)
          IN  /\ WithinFaults(<<load, stop, rem, DbOutcome(dbOk)>>)
              /\ devState' = r.devState
              /\ localConfig' = r.config
              /\ duLog' = duLog \o r.events
              /\ DuContinue(r.err)
    /\ UNCHANGED <<duInput, duReverter, duRegistered, duPre, vrCall, vrResult>>
    /\ UNCHANGED <<autoVars, lockVars, laterVars>>

\* The add loop visits its next entry.
DuAddStep ==
    /\ duPc = "add"
    /\ \E load \in LoadOutcomes, add \in {"ok", "fail"}, pre \in {"ok", "fail"},
          start \in CallOutcomes, dbOk \in BOOLEAN :
          LET r == AddEntry(Head(duQueue), duInput, devState, localConfig,
                            load, add, pre, start, dbOk)
          IN  /\ WithinFaults(<<load, add, pre, start, DbOutcome(dbOk)>>)
              /\ devState' = r.devState
              /\ localConfig' = r.config
              /\ duLog' = duLog \o r.events
              /\ duReverter' = duReverter \o r.hooks
              /\ duRegistered' = duRegistered \cup {r.hooks[i].dev : i \in 1..Len(r.hooks)}
              /\ DuContinue(r.err)
    /\ UNCHANGED <<duInput, duPre, vrCall, vrResult>>
    /\ UNCHANGED <<autoVars, lockVars, laterVars>>

\* The update loop visits its next entry.
DuUpdateStep ==
    /\ duPc = "update"
    /\ \E load \in LoadOutcomes, stop \in {"ok", "fail"}, rem \in CallOutcomes,
          upd \in {"ok", "fail"} :
          LET r == UpdateEntry(Head(duQueue), duInput, devState, load, stop, rem, upd)
          IN  /\ WithinFaults(<<load, stop, rem, upd>>)
              /\ devState' = r.devState
              /\ duLog' = duLog \o r.events
              /\ DuContinue(r.err)
    /\ UNCHANGED <<duInput, duReverter, duRegistered, duPre>>
    /\ UNCHANGED <<autoVars, volatileVars, lockVars, laterVars>>

\* reverter.Success() and return nil: the hooks are dropped.
DuSuccess ==
    /\ duPc = "success"
    /\ duPc' = "done"
    /\ duReverter' = <<>>
    /\ duResult' = "ok"
    /\ UNCHANGED <<duInput, duQueue, devState, duLog, duRegistered, duFaults, duPre>>
    /\ UNCHANGED <<autoVars, volatileVars, lockVars, laterVars>>

\* The state of the devices after the revert hook h ran with the given outcome.
RevertHook(h, ds, outcome) ==
    IF outcome # "ok" THEN ds
    ELSE IF h.kind = "stop" THEN [ds EXCEPT ![h.dev].started = FALSE]
    ELSE [ds EXCEPT ![h.dev].present = FALSE]

\* The deferred reverter.Fail() runs the hook added last; its error is dropped.
DuRevertStep ==
    /\ duPc = "revert"
    /\ duReverter # <<>>
    /\ LET h == duReverter[Len(duReverter)]
       IN  \E outcome \in {"ok", "fail"} :
              /\ WithinFaults(<<outcome>>)
              /\ devState' = RevertHook(h, devState, outcome)
              /\ duLog' = Append(duLog, Event(h.kind, h.dev, "revert", outcome))
    /\ duReverter' = SubSeq(duReverter, 1, Len(duReverter) - 1)
    /\ UNCHANGED <<duInput, duPc, duQueue, duRegistered, duResult, duPre>>
    /\ UNCHANGED <<autoVars, volatileVars, lockVars, laterVars>>

\* The call returns its error once every hook has run.
DuFailed ==
    /\ duPc = "revert"
    /\ duReverter = <<>>
    /\ duPc' = "done"
    /\ UNCHANGED <<duInput, duQueue, duReverter, devState, duLog, duRegistered, duResult,
                   duFaults, duPre>>
    /\ UNCHANGED <<autoVars, volatileVars, lockVars, laterVars>>

NextDevices ==
    \/ DuBegin
    \/ DuRemoveStep
    \/ DuAddStep
    \/ DuUpdateStep
    \/ DuSuccess
    \/ DuRevertStep
    \/ DuFailed

\* ---- properties of devicesUpdate ----

PhaseRank(phase) ==
    CASE phase = "remove" -> 1 [] phase = "add" -> 2 [] phase = "update" -> 3 [] OTHER -> 4

\* The entry of device d in the map the loop of `phase` ranges over.
EntryOf(d, phase) ==
    [name |-> d,
     config |-> IF phase = "add" THEN NewConfig(d, duInput.change[d]) ELSE OldConfig(d)]

\* The positions of the log that belong to the three loops (not to the revert).
LoopEvents == {i \in 1..Len(duLog) : duLog[i].phase # "revert"}

\* C8: removals come before additions and additions before updates; the remove loop
\* visits its devices in descending sorted order, the add and update loops in
\* ascending sorted order; on a running instance a removed device was stopped just
\* before its Remove, and an added device is pre-start-checked directly after its
\* Add and started directly after the check, before the next device is added.
C8_DeviceOrder ==
    /\ \A i, j \in LoopEvents :
          i < j => PhaseRank(duLog[i].phase) <= PhaseRank(duLog[j].phase)
    /\ \A i, j \in LoopEvents :
          (i < j /\ duLog[i].phase = duLog[j].phase /\ duLog[i].dev # duLog[j].dev) =>
             IF duLog[i].phase = "remove"
             THEN DevLess(EntryOf(duLog[j].dev, "remove"), EntryOf(duLog[i].dev, "remove"))
             ELSE DevLess(EntryOf(duLog[i].dev, duLog[i].phase),
                          EntryOf(duLog[j].dev, duLog[j].phase))
    /\ duInput.running =>
          \A i \in LoopEvents :
             /\ (duLog[i].op = "remove" /\ duLog[i].phase = "remove") =>
                   /\ i > 1
                   /\ duLog[i-1] = Event("stop", duLog[i].dev, "remove", "ok")
             /\ (duLog[i].op = "add" /\ duLog[i].res = "ok") =>
                   /\ i < Len(duLog)
                   /\ duLog[i+1].op = "precheck" /\ duLog[i+1].dev = duLog[i].dev
             /\ (duLog[i].op = "precheck" /\ duLog[i].res = "ok") =>
                   /\ i < Len(duLog)
                   /\ duLog[i+1].op = "start" /\ duLog[i+1].dev = duLog[i].dev
             /\ duLog[i].op = "start" =>
                   /\ i > 2
                   /\ duLog[i-1] = Event("precheck", duLog[i].dev, "add", "ok")
                   /\ duLog[i-2].op = "add" /\ duLog[i-2].dev = duLog[i].dev

\* C8 witness: a call on a running instance that removed two devices, added two
\* (starting both) and updated one, and returned without error.
C8_Witness ==
    /\ duPc = "done" /\ duResult = "ok" /\ duInput.running
    /\ Cardinality({i \in LoopEvents : duLog[i].op = "remove" /\ duLog[i].res = "ok"}) >= 2
    /\ Cardinality({i \in LoopEvents : duLog[i].op = "start" /\ duLog[i].res = "ok"}) >= 2
    /\ \E i \in LoopEvents : duLog[i].op = "update" /\ duLog[i].res = "ok"

\* C7 (the claim as stated; the code does not satisfy it): when devicesUpdate on a
\* running instance has returned because a device Start failed, the devices are in
\* their pre-update state (added devices stopped and removed, removed devices present
\* and started again) and the local config has its pre-update volatile keys.
C7_StartFailureRestoresPreState ==
    (duPc = "done" /\ duInput.running /\ duResult = "startFailed") =>
        /\ devState = duPre.devState
        /\ localConfig = duPre.config

\* A device of the add or update loop failed its validation on load, or its Add, for
\* a reason other than an unsupported device type.
DeviceFailedAt(i) ==
    /\ duLog[i].phase \in {"add", "update"}
    /\ \/ duLog[i].op = "load" /\ duLog[i].res \in {"invalid", "failed"}
       \/ duLog[i].op = "add" /\ duLog[i].res # "ok"

\* C9 (the claim as stated; the code does not satisfy it): when a device to add or
\* update fails validation or its Add: with userRequested the call fails; without,
\* the device is skipped (not pre-start-checked, started or updated, and no revert
\* hook is registered for it) and that failure does not end the call.
C9_FailedDeviceSkipped ==
    \A i \in 1..Len(duLog) :
        DeviceFailedAt(i) =>
            IF duInput.userRequested
            THEN duResult \in {"addValidation", "addFailed", "updateValidation"}
            ELSE /\ \A j \in LoopEvents :
                       (j > i /\ duLog[j].dev = duLog[i].dev) =>
                           duLog[j].op \notin {"precheck", "start", "update"}
                 /\ duLog[i].dev \notin duRegistered
                 /\ duResult \notin {"addValidation", "addFailed", "updateValidation"}

(***************************************************************************)
(* Restart, Start, Stop and the stop hook under the operation lock         *)
(***************************************************************************)

\* How many times the guest shuts down or reboots on its own in one behaviour.
MaxGuestHalts == 1

Procs == {1, 2}

\* Restart(timeout): 0 stops the instance, anything else shuts it down.
Timeouts == {0, 1}

\* The calls a client can make, in an arbitrary fixed order.
Calls ==
    <<[call |-> "restart", timeout |-> 0], [call |-> "restart", timeout |-> 1],
      [call |-> "start", timeout |-> 0], [call |-> "stop", timeout |-> 0]>>

ActionStart == "start"
ActionStop == "stop"
ActionRestart == "restart"
ActionRestore == "restore"
ActionMigrate == "migrate"
ActionUpdate == "update"

NoLock == 0

ErrNonReusuableSucceeded == "ErrNonReusuableSucceeded"

LockIds == 1..Len(locks)

\* The locks that are not done yet.
LiveLocks == {l \in LockIds : ~locks[l].done}

\* The lock table and the map of the instance's key, as one value.
LockTable == [locks |-> locks, map |-> instanceOperations]

\* operationlock.Get
Get == instanceOperations

\* op.ActionMatch(actions...)
ActionMatch(l, actions) == locks[l].action \in actions

\* operationlock.Create(project, name, op, action, reusable, reuse): an existing lock is
\* returned when it is reusable and reuse is asked, and makes the call fail otherwise.
Create(action, reusable, reuse) ==
    IF instanceOperations # NoLock
    THEN IF locks[instanceOperations].reusable /\ reuse
         THEN [err |-> "nil", op |-> instanceOperations, wait |-> NoLock, table |-> LockTable]
         ELSE [err |-> "busy", op |-> NoLock, wait |-> NoLock, table |-> LockTable]
    ELSE [err |-> "nil", op |-> Len(locks) + 1, wait |-> NoLock,
          table |-> [locks |-> Append(locks, [action |-> action, reusable |-> reusable,
                                               done |-> FALSE, err |-> "nil",
                                               instanceInitiated |-> FALSE,
                                               liveBefore |-> Cardinality(LiveLocks)]),
                     map |-> Len(locks) + 1]]

\* operationlock.CreateWaitGet, up to the point where it waits: err "wait" says the
\* caller has to wait for lock `wait` and takes its result.
CreateWaitGet(action, inheritableActions, reusable, reuse) ==
    LET op == Get
    IN  IF op = NoLock THEN Create(action, reusable, reuse)
        ELSE IF locks[op].action = action /\ (~reuse \/ ~locks[op].reusable)
        THEN [err |-> "wait", op |-> NoLock, wait |-> op, table |-> LockTable]
        ELSE IF ActionMatch(op, inheritableActions)
        THEN [err |-> "nil", op |-> op, wait |-> NoLock, table |-> LockTable]
        ELSE Create(action, reusable, reuse)

\* What CreateWaitGet returns once the lock it waited for is done.
WaitedResult(l) ==
    IF locks[l].err # "nil" THEN locks[l].err ELSE ErrNonReusuableSucceeded

\* op.Done(err) on a lock table: no effect on a nil or finished lock.
Done(table, l, err) ==
    IF l = NoLock \/ table.locks[l].done THEN table
    ELSE [locks |-> [table.locks EXCEPT ![l].done = TRUE, ![l].err = err],
          map |-> IF table.map = l THEN NoLock ELSE table.map]

\* op.SetInstanceInitiated(true)
SetInstanceInitiated(table, l) ==
    [table EXCEPT !.locks[l].instanceInitiated = TRUE]

\* isStartableStatusCode
IsStartableStatusCode(statusCode) ==
    CASE statusCode = "Running" -> "alreadyRunning"
      [] statusCode = "Frozen" -> "alreadyRunningFrozen"
      [] OTHER -> "nil"

\* ---- restartCommon ----

\* The stop phase restartCommon chooses.
RestartStopPhase(timeout, frozen) ==
    IF timeout = 0 THEN "Stop"
    ELSE IF frozen THEN "refuse" ELSE "Shutdown"

\* The variant that goes on to the start phase whatever the stop phase returned.
RestartAfterStopIgnoringError(err) ==
    [pc |-> "rc_cwg", done |-> FALSE, ret |-> "none"]

\* restartCommon once its stop phase has returned err.
RestartAfterStop(err) ==
    IF err # "nil"
    THEN [pc |-> "rc_return", done |-> TRUE, ret |-> err]
    ELSE [pc |-> "rc_cwg", done |-> FALSE, ret |-> "none"]

\* The variant that treats ErrNonReusuableSucceeded as any other error.
RestartAfterCreateWaitGetStrict(err) ==
    IF err = "nil"
    THEN [pc |-> "start_begin", ret |-> "none"]
    ELSE [pc |-> "rc_return", ret |-> "createRestartForStart"]

\* restartCommon once the CreateWaitGet of its start phase has returned err.
RestartAfterCreateWaitGet(err) ==
    IF err = "nil"
    THEN [pc |-> "start_begin", ret |-> "none"]
    ELSE IF err = ErrNonReusuableSucceeded
    THEN [pc |-> "rc_return", ret |-> "nil"]
    ELSE [pc |-> "rc_return", ret |-> "createRestartForStart"]

\* restartCommon once inst.Start has returned err.
RestartAfterStart(err) ==
    IF err # "nil"
    THEN [pc |-> "rc_return", done |-> TRUE, ret |-> err]
    ELSE [pc |-> "rc_return", done |-> FALSE, ret |-> "nil"]

\* ---- onStopOperationSetup ----

OnStopInheritable == {ActionStart, ActionRestart, ActionStop, ActionRestore, ActionMigrate}

\* The variant that never picks an existing operation up.
OnStopLookupNoInherit(op) ==
    IF op # NoLock THEN "wait" ELSE "create"

\* What onStopOperationSetup does with the lock that Get returned.
OnStopLookup(op) ==
    IF op # NoLock /\ ~ActionMatch(op, OnStopInheritable) THEN "wait"
    ELSE IF op = NoLock THEN "create"
    ELSE "inherit"

\* The action of the lock onStopOperationSetup creates.
OnStopAction(target) ==
    IF target = "reboot" THEN ActionRestart ELSE ActionStop

\* ---- processes ----

IdleProc ==
    [pc |-> "idle", call |-> "none", timeout |-> 0, sub |-> "none",
     op |-> NoLock, sop |-> NoLock, waitOn |-> NoLock, found |-> NoLock,
     ephRead |-> FALSE, cleared |-> FALSE, restore |-> FALSE, wrote |-> FALSE,
     sawFrozen |-> FALSE, ret |-> "none", log |-> <<>>, ephAtReturn |-> FALSE]

IdleHook ==
    [pc |-> "idle", target |-> "stop", op |-> NoLock, waitOn |-> NoLock,
     seen |-> NoLock, seenAction |-> "none", inherited |-> FALSE, created |-> FALSE]

\* A client about to make call c: Restart(timeout), Start or Stop.
Calling(c) ==
    [IdleProc EXCEPT !.call = c.call, !.timeout = c.timeout,
                     !.sub = CASE c.call = "restart" -> "none"
                               [] c.call = "start" -> "Start"
                               [] OTHER -> "Stop",
                     !.pc = CASE c.call = "restart" -> "rc_create"
                              [] c.call = "start" -> "start_begin"
                              [] OTHER -> "stop_begin"]

LockIdle ==
    /\ instanceOperations = NoLock
    /\ locks = <<>>
    /\ status = "Stopped"
    /\ ephemeral = FALSE
    /\ procs = [p \in Procs |-> IdleProc]
    /\ hook = IdleHook
    /\ otherOp = NoLock
    /\ guestHalts = 0

\* Two clients about to make their calls on an instance without operation.
ClientsStart ==
    /\ instanceOperations = NoLock
    /\ locks = <<>>
    /\ status \in {"Running", "Frozen", "Stopped"}
    /\ \E c1, c2 \in 1..Len(Calls) :
          /\ c1 <= c2
          /\ procs = [p \in Procs |-> Calling(Calls[IF p = 1 THEN c1 ELSE c2])]
    /\ hook = IdleHook
    /\ otherOp = NoLock
    /\ guestHalts = 0

\* The clients' calls on a persistent instance.
LockStart == ClientsStart /\ ephemeral = FALSE

\* The clients' calls on an instance that may be ephemeral.
RestartStart == ClientsStart /\ ephemeral \in BOOLEAN

Call(sub, ev) == [sub |-> sub, ev |-> ev]

SetTable(table) ==
    /\ locks' = table.locks
    /\ instanceOperations' = table.map

\* The runtime halts: the instance process is gone and the stop hook is called.
Halt(target) ==
    /\ hook.pc = "idle"
    /\ status' = "Stopped"
    /\ hook' = [IdleHook EXCEPT !.pc = "get", !.target = target]

\* restartCommon: the operation for the stop phase.
RestartCreate(p) ==
    /\ procs[p].pc = "rc_create"
    /\ LET r == Create(ActionRestart, TRUE, TRUE)
       IN  /\ SetTable(r.table)
           /\ procs' = [procs EXCEPT ![p] =
                 IF r.err # "nil"
                 THEN [@ EXCEPT !.pc = "rc_return", !.ret = "createRestart"]
                 ELSE [@ EXCEPT !.pc = "rc_ephemeral", !.op = r.op]]
    /\ UNCHANGED <<status, ephemeral, hook, otherOp, guestHalts>>
    /\ UNCHANGED <<autoVars, volatileVars, devicesVars, laterVars>>

\* restartCommon: an ephemeral instance has its flag unset by inst.Update, which may
\* fail; on success the flag's restore is deferred to the function's return.
RestartEphemeral(p) ==
    /\ procs[p].pc = "rc_ephemeral"
    /\ \E updated \in BOOLEAN :
          /\ ~ephemeral => updated
          /\ ephemeral' = IF ephemeral /\ updated THEN FALSE ELSE ephemeral
          /\ procs' = [procs EXCEPT ![p] =
                IF ~ephemeral
                THEN [@ EXCEPT !.pc = "rc_stop", !.ephRead = FALSE]
                ELSE IF updated
                THEN [@ EXCEPT !.pc = "rc_stop", !.ephRead = TRUE, !.cleared = TRUE,
                               !.restore = TRUE, !.wrote = TRUE]
                ELSE [@ EXCEPT !.pc = "rc_return", !.ephRead = TRUE,
                               !.ret = "updateFailed"]]
    /\ UNCHANGED <<instanceOperations, locks, status, hook, otherOp, guestHalts>>
    /\ UNCHANGED <<autoVars, volatileVars, devicesVars, laterVars>>

\* restartCommon: the stop phase is chosen; a frozen instance is refused.
RestartStop(p) ==
    /\ procs[p].pc = "rc_stop"
    /\ LET pr == procs[p]
           frozen == status = "Frozen"
           phase == RestartStopPhase(pr.timeout, frozen)
           seen == [pr EXCEPT !.sawFrozen = frozen /\ pr.timeout # 0]
       IN  IF phase = "refuse"
           THEN /\ SetTable(Done(LockTable, pr.op, "notRunning"))
                /\ procs' = [procs EXCEPT ![p] =
                      [seen EXCEPT !.pc = "rc_return", !.ret = "notRunning"]]
           ELSE /\ procs' = [procs EXCEPT ![p] =
                      [seen EXCEPT !.pc = "stop_begin", !.sub = phase,
                                   !.log = Append(@, Call(phase, "call"))]]
                /\ UNCHANGED <<instanceOperations, locks>>
    /\ UNCHANGED <<status, ephemeral, hook, otherOp, guestHalts>>
    /\ UNCHANGED <<autoVars, volatileVars, devicesVars, laterVars>>

\* inst.Stop, inst.Shutdown or inst.Start returns err to its caller: to the client, or
\* to restartCommon, which then goes on.
Returns(p, pr, table, err) ==
    LET ev == Call(pr.sub, IF err = "nil" THEN "ok" ELSE "err")
        logged == [pr EXCEPT !.log = Append(@, ev), !.sop = NoLock, !.waitOn = NoLock]
    IN  IF pr.call # "restart"
        THEN /\ procs' = [procs EXCEPT ![p] = [logged EXCEPT !.pc = "done", !.ret = err]]
             /\ SetTable(table)
        ELSE LET nxt == IF pr.sub = "Start" THEN RestartAfterStart(err)
                        ELSE RestartAfterStop(err)
             IN  /\ procs' = [procs EXCEPT ![p] =
                       [logged EXCEPT !.pc = nxt.pc, !.ret = nxt.ret]]
                 /\ SetTable(IF nxt.done THEN Done(table, pr.op, err) ELSE table)

\* inst.Stop / inst.Shutdown: refuse a stopped instance, then take the stop lock
\* (picking up a live restart or restore lock).
StopBegin(p) ==
    /\ procs[p].pc = "stop_begin"
    /\ LET pr == procs[p]
           r == CreateWaitGet(ActionStop, {ActionRestart, ActionRestore},
                              pr.sub = "Shutdown", TRUE)
       IN  IF status = "Stopped" THEN Returns(p, pr, LockTable, "stopped")
           ELSE IF r.err = "wait"
           THEN /\ procs' = [procs EXCEPT ![p] =
                      [pr EXCEPT !.pc = "stop_lockwait", !.waitOn = r.wait]]
                /\ UNCHANGED <<instanceOperations, locks>>
           ELSE IF r.err # "nil" THEN Returns(p, pr, LockTable, r.err)
           ELSE /\ SetTable(r.table)
                /\ procs' = [procs EXCEPT ![p] =
                      [pr EXCEPT !.pc = "stop_halt", !.sop = r.op]]
    /\ UNCHANGED <<status, ephemeral, hook, otherOp, guestHalts>>
    /\ UNCHANGED <<autoVars, volatileVars, devicesVars, laterVars>>

\* inst.Stop / inst.Start: the matching operation that was waited for is done.
LockWaited(p) ==
    /\ procs[p].pc \in {"stop_lockwait", "start_lockwait"}
    /\ LET pr == procs[p]
           err == WaitedResult(pr.waitOn)
       IN  /\ locks[pr.waitOn].done
           /\ Returns(p, pr, LockTable,
                      IF err = ErrNonReusuableSucceeded THEN "nil" ELSE err)
    /\ UNCHANGED <<status, ephemeral, hook, otherOp, guestHalts>>
    /\ UNCHANGED <<autoVars, volatileVars, devicesVars, laterVars>>

\* inst.Stop halts the runtime; inst.Shutdown asks the guest, which may not comply.
StopHalt(p) ==
    /\ procs[p].pc = "stop_halt"
    /\ \E complies \in BOOLEAN :
          /\ procs[p].sub = "Stop" => complies
          /\ IF complies /\ status # "Stopped"
             THEN Halt("stop")
             ELSE UNCHANGED <<status, hook>>
    /\ procs' = [procs EXCEPT ![p].pc = "stop_wait"]
    /\ UNCHANGED <<instanceOperations, locks, ephemeral, otherOp, guestHalts>>
    /\ UNCHANGED <<autoVars, volatileVars, devicesVars, laterVars>>

\* inst.Stop / inst.Shutdown wait for the hook to finish the operation; Shutdown
\* gives up when its timeout expires first.
StopWait(p) ==
    /\ procs[p].pc = "stop_wait"
    /\ LET pr == procs[p]
       IN  \/ /\ locks[pr.sop].done
              /\ Returns(p, pr, LockTable, locks[pr.sop].err)
           \/ /\ ~locks[pr.sop].done
              /\ pr.sub = "Shutdown"
              /\ Returns(p, pr, LockTable, "timeout")
    /\ UNCHANGED <<status, ephemeral, hook, otherOp, guestHalts>>
    /\ UNCHANGED <<autoVars, volatileVars, devicesVars, laterVars>>

\* restartCommon: the operation for the start phase.
RestartCreateWaitGet(p) ==
    /\ procs[p].pc = "rc_cwg"
    /\ LET pr == procs[p]
           r == CreateWaitGet(ActionRestart, {}, TRUE, FALSE)
       IN  IF r.err = "wait"
           THEN /\ procs' = [procs EXCEPT ![p] =
                      [pr EXCEPT !.pc = "rc_cwgwait", !.found = r.wait]]
                /\ UNCHANGED <<instanceOperations, locks>>
           ELSE LET nxt == RestartAfterCreateWaitGet(r.err)
                IN  /\ SetTable(r.table)
                    /\ procs' = [procs EXCEPT ![p] =
                          [pr EXCEPT !.pc = nxt.pc, !.ret = nxt.ret, !.op = r.op,
                                     !.sub = "Start",
                                     !.log = IF nxt.pc = "start_begin"
                                             THEN Append(@, Call("Start", "call"))
                                             ELSE @]]
    /\ UNCHANGED <<status, ephemeral, hook, otherOp, guestHalts>>
    /\ UNCHANGED <<autoVars, volatileVars, devicesVars, laterVars>>

\* restartCommon: the matching operation CreateWaitGet waited for is done.
RestartWaited(p) ==
    /\ procs[p].pc = "rc_cwgwait"
    /\ LET pr == procs[p]
           nxt == RestartAfterCreateWaitGet(WaitedResult(pr.found))
       IN  /\ locks[pr.found].done
           /\ procs' = [procs EXCEPT ![p] =
                 [pr EXCEPT !.pc = nxt.pc, !.ret = nxt.ret, !.op = NoLock,
                            !.sub = "Start",
                            !.log = IF nxt.pc = "start_begin"
                                    THEN Append(@, Call("Start", "call"))
                                    ELSE @]]
    /\ UNCHANGED <<instanceOperations, locks, status, ephemeral, hook, otherOp, guestHalts>>
    /\ UNCHANGED <<autoVars, volatileVars, devicesVars, laterVars>>

\* inst.Start: check the status, then take the start lock (picking up a live restart
\* or restore lock).
StartBegin(p) ==
    /\ procs[p].pc = "start_begin"
    /\ LET pr == procs[p]
           startable == IsStartableStatusCode(status)
           r == CreateWaitGet(ActionStart, {ActionRestart, ActionRestore}, FALSE, FALSE)
       IN  IF startable # "nil" THEN Returns(p, pr, LockTable, startable)
           ELSE IF r.err = "wait"
           THEN /\ procs' = [procs EXCEPT ![p] =
                      [pr EXCEPT !.pc = "start_lockwait", !.waitOn = r.wait]]
                /\ UNCHANGED <<instanceOperations, locks>>
           ELSE IF r.err # "nil" THEN Returns(p, pr, LockTable, r.err)
           ELSE /\ SetTable(r.table)
                /\ procs' = [procs EXCEPT ![p] =
                      [pr EXCEPT !.pc = "start_run", !.sop = r.op]]
    /\ UNCHANGED <<status, ephemeral, hook, otherOp, guestHalts>>
    /\ UNCHANGED <<autoVars, volatileVars, devicesVars, laterVars>>

\* inst.Start: the runtime starts the instance, or fails to; the lock is done.
StartRun(p) ==
    /\ procs[p].pc = "start_run"
    /\ \E started \in BOOLEAN :
          LET pr == procs[p]
              err == IF started THEN "nil" ELSE "startFailed"
          IN  /\ status' = IF started THEN "Running" ELSE status
              /\ Returns(p, pr, Done(LockTable, pr.sop, err), err)
    /\ UNCHANGED <<ephemeral, hook, otherOp, guestHalts>>
    /\ UNCHANGED <<autoVars, volatileVars, devicesVars, laterVars>>

\* restartCommon returns: the deferred function sets the ephemeral flag back with
\* inst.Update and discards its error.
RestartReturn(p) ==
    /\ procs[p].pc = "rc_return"
    /\ \E updated \in BOOLEAN :
          /\ ~procs[p].restore => updated
          /\ ephemeral' = IF procs[p].restore /\ updated THEN procs[p].ephRead
                          ELSE ephemeral
          /\ procs' = [procs EXCEPT ![p] =
                [@ EXCEPT !.pc = "done", !.ephAtReturn = ephemeral']]
    /\ UNCHANGED <<instanceOperations, locks, status, hook, otherOp, guestHalts>>
    /\ UNCHANGED <<autoVars, volatileVars, devicesVars, laterVars>>

\* The guest shuts itself down or reboots.
GuestHalt ==
    /\ status = "Running"
    /\ guestHalts < MaxGuestHalts
    /\ guestHalts' = guestHalts + 1
    /\ \E target \in {"stop", "reboot"} : Halt(target)
    /\ UNCHANGED <<instanceOperations, locks, ephemeral, procs, otherOp>>
    /\ UNCHANGED <<autoVars, volatileVars, devicesVars, laterVars>>

\* onStopOperationSetup: look the instance's operation up.
HookGet ==
    /\ hook.pc = "get"
    /\ LET op == Get
           todo == OnStopLookup(op)
           seen == [hook EXCEPT !.seen = op,
                                !.seenAction = IF op = NoLock THEN "none"
                                               ELSE locks[op].action]
       IN  hook' = CASE todo = "wait" -> [seen EXCEPT !.pc = "wait", !.waitOn = op]
                     [] todo = "create" -> [seen EXCEPT !.pc = "create"]
                     [] OTHER -> [seen EXCEPT !.pc = "run", !.op = op,
                                              !.inherited = TRUE]
    /\ UNCHANGED <<instanceOperations, locks, status, ephemeral, procs, otherOp, guestHalts>>
    /\ UNCHANGED <<autoVars, volatileVars, devicesVars, laterVars>>

\* onStopOperationSetup: the other operation has finished.
HookWait ==
    /\ hook.pc = "wait"
    /\ locks[hook.waitOn].done
    /\ hook' = [hook EXCEPT !.pc = "create"]
    /\ UNCHANGED <<instanceOperations, locks, status, ephemeral, procs, otherOp, guestHalts>>
    /\ UNCHANGED <<autoVars, volatileVars, devicesVars, laterVars>>

\* onStopOperationSetup: create the instance-initiated operation.
HookCreate ==
    /\ hook.pc = "create"
    /\ LET r == Create(OnStopAction(hook.target), FALSE, FALSE)
       IN  IF r.err # "nil"
           THEN /\ hook' = IdleHook
                /\ UNCHANGED <<instanceOperations, locks>>
           ELSE /\ SetTable(SetInstanceInitiated(r.table, r.op))
                /\ hook' = [hook EXCEPT !.pc = "run", !.op = r.op, !.created = TRUE]
    /\ UNCHANGED <<status, ephemeral, procs, otherOp, guestHalts>>
    /\ UNCHANGED <<autoVars, volatileVars, devicesVars, laterVars>>

\* The stop hook runs under its operation and finishes it; a reboot starts the
\* instance again.
HookRun ==
    /\ hook.pc = "run"
    /\ SetTable(Done(LockTable, hook.op, "nil"))
    /\ status' = IF hook.target = "reboot" THEN "Running" ELSE status
    /\ hook' = IdleHook
    /\ UNCHANGED <<ephemeral, procs, otherOp, guestHalts>>
    /\ UNCHANGED <<autoVars, volatileVars, devicesVars, laterVars>>

OtherFinished == -1

\* Another operation on the instance (a config update) takes the lock.
OtherBegin ==
    /\ otherOp = NoLock
    /\ LET r == Create(ActionUpdate, FALSE, FALSE)
       IN  /\ r.err = "nil"
           /\ SetTable(r.table)
           /\ otherOp' = r.op
    /\ UNCHANGED <<status, ephemeral, procs, hook, guestHalts>>
    /\ UNCHANGED <<autoVars, volatileVars, devicesVars, laterVars>>

\* The other operation finishes.
OtherDone ==
    /\ otherOp \in LockIds
    /\ SetTable(Done(LockTable, otherOp, "nil"))
    /\ otherOp' = OtherFinished
    /\ UNCHANGED <<status, ephemeral, procs, hook, guestHalts>>
    /\ UNCHANGED <<autoVars, volatileVars, devicesVars, laterVars>>

Next ==
    \/ \E p \in Procs : RestartCreate(p)
    \/ \E p \in Procs : RestartEphemeral(p)
    \/ \E p \in Procs : RestartStop(p)
    \/ \E p \in Procs : StopBegin(p)
    \/ \E p \in Procs : LockWaited(p)
    \/ \E p \in Procs : StopHalt(p)
    \/ \E p \in Procs : StopWait(p)
    \/ \E p \in Procs : RestartCreateWaitGet(p)
    \/ \E p \in Procs : RestartWaited(p)
    \/ \E p \in Procs : StartBegin(p)
    \/ \E p \in Procs : StartRun(p)
    \/ \E p \in Procs : RestartReturn(p)
    \/ GuestHalt
    \/ HookGet
    \/ HookWait
    \/ HookCreate
    \/ HookRun
    \/ OtherBegin
    \/ OtherDone

\* The clients' calls and the stop hooks they cause, with nothing else going on.
NextRestart ==
    \/ \E p \in Procs : RestartCreate(p)
    \/ \E p \in Procs : RestartEphemeral(p)
    \/ \E p \in Procs : RestartStop(p)
    \/ \E p \in Procs : StopBegin(p)
    \/ \E p \in Procs : LockWaited(p)
    \/ \E p \in Procs : StopHalt(p)
    \/ \E p \in Procs : StopWait(p)
    \/ \E p \in Procs : RestartCreateWaitGet(p)
    \/ \E p \in Procs : RestartWaited(p)
    \/ \E p \in Procs : StartBegin(p)
    \/ \E p \in Procs : StartRun(p)
    \/ \E p \in Procs : RestartReturn(p)
    \/ HookGet
    \/ HookCreate
    \/ HookRun

\* ---- properties of the operation lock, restartCommon and the stop hook ----

\* C1: at most one non-reusable lock of the instance is live; a lock is only ever
\* created when no other lock is live; a stop hook that found a live lock with action
\* start, restart, stop, restore or migrate works under that lock and creates none;
\* one that found a lock with another action creates its own only after that lock is
\* done.
C1_OneLiveLock ==
    /\ Cardinality({l \in LiveLocks : ~locks[l].reusable}) <= 1
    /\ \A l \in LockIds : locks[l].liveBefore = 0
    /\ (hook.seen # NoLock
          /\ hook.seenAction \in {"start", "restart", "stop", "restore", "migrate"}) =>
             /\ hook.pc = "run" /\ hook.inherited /\ ~hook.created
             /\ hook.op = hook.seen
    /\ (hook.seen # NoLock
          /\ hook.seenAction \notin {"start", "restart", "stop", "restore", "migrate"}) =>
             /\ ~hook.inherited
             /\ hook.pc = "wait" \/ locks[hook.seen].done
    /\ hook.created =>
          /\ hook.pc = "run"
          /\ hook.op # hook.seen
          /\ locks[hook.op].instanceInitiated

\* C1 witness: two Restart calls are in progress and the stop hook runs under the live
\* restart lock it found.
C1_Witness ==
    /\ hook.pc = "run" /\ hook.inherited
    /\ hook.seenAction = "restart" /\ ~locks[hook.op].done
    /\ \A p \in Procs : procs[p].call = "restart" /\ procs[p].pc = "stop_wait"

\* The stop hook of a guest that halted on its own waited for an update operation to
\* finish and then created its own lock.
C1_WitnessWaited ==
    /\ hook.pc = "run" /\ hook.created
    /\ hook.seenAction = "update" /\ locks[hook.seen].done
    /\ ~locks[hook.op].done

\* C2: a Restart call whose CreateWaitGet for the start phase found a live restart lock
\* stays blocked in it while that lock is live and never calls Start; when the lock
\* has finished without error the call returns nil.
C2_SecondRestartWaits ==
    \A p \in Procs :
        procs[p].found # NoLock =>
            /\ locks[procs[p].found].action = "restart"
            /\ ~locks[procs[p].found].done => procs[p].pc = "rc_cwgwait"
            /\ \A i \in 1..Len(procs[p].log) : procs[p].log[i].sub # "Start"
            /\ (procs[p].pc \in {"rc_return", "done"}
                  /\ locks[procs[p].found].err = "nil") => procs[p].ret = "nil"

\* C2 witness: of two concurrent Restart calls one has started the instance under its
\* restart lock and returned nil; the other waited for that lock and returned nil
\* without a Start.
C2_Witness ==
    \E p, q \in Procs :
        /\ p # q
        /\ procs[p].call = "restart" /\ procs[q].call = "restart"
        /\ procs[p].found # NoLock /\ procs[p].found = procs[q].op
        /\ procs[p].pc = "done" /\ procs[p].ret = "nil"
        /\ procs[q].pc = "done" /\ procs[q].ret = "nil"
        /\ procs[q].log[Len(procs[q].log)] = Call("Start", "ok")

\* C3: in a Restart call, inst.Start is called only directly after the stop phase has
\* returned without error; the stop phase is inst.Stop exactly when the timeout is 0;
\* a call with a non-zero timeout on a frozen instance calls neither Shutdown nor
\* Start and fails with "Instance is not running".
C3_StopThenStart ==
    \A p \in Procs :
        procs[p].call = "restart" =>
            /\ \A i \in 1..Len(procs[p].log) :
                  /\ procs[p].log[i] = Call("Start", "call") =>
                        /\ i > 1
                        /\ procs[p].log[i-1] \in {Call("Stop", "ok"), Call("Shutdown", "ok")}
                  /\ procs[p].log[i].sub = "Stop" => procs[p].timeout = 0
                  /\ procs[p].log[i].sub = "Shutdown" => procs[p].timeout # 0
            /\ procs[p].sawFrozen =>
                  /\ procs[p].log = <<>>
                  /\ procs[p].pc \in {"rc_return", "done"}
                  /\ procs[p].ret = "notRunning"

\* C3 witness: a Restart with a timeout has shut the instance down and then started it.
C3_Witness ==
    \E p \in Procs :
        /\ procs[p].call = "restart" /\ procs[p].pc = "done" /\ procs[p].ret = "nil"
        /\ procs[p].log = <<Call("Shutdown", "call"), Call("Shutdown", "ok"),
                            Call("Start", "call"), Call("Start", "ok")>>

\* A Restart with a timeout was refused on a frozen instance.
C3_WitnessFrozen ==
    \E p \in Procs : procs[p].sawFrozen /\ procs[p].pc = "done"

\* The stop phase of a Restart failed and the call returned its error.
C3_WitnessStopFailed ==
    \E p \in Procs :
        /\ procs[p].call = "restart" /\ procs[p].pc = "done"
        /\ procs[p].log = <<Call("Stop", "call"), Call("Stop", "err")>>

\* C4 (the claim as stated; the code does not satisfy it): a Restart call on an
\* ephemeral instance has cleared the flag before its stop phase, and when it has
\* returned after a successful clear the flag is back at the value it had; a Restart
\* call on a non-ephemeral instance never writes the flag.
C4_EphemeralRestored ==
    \A p \in Procs :
        procs[p].call = "restart" =>
            /\ (procs[p].ephRead /\ procs[p].log # <<>>) =>
                  procs[p].cleared
            /\ (procs[p].pc = "done" /\ procs[p].cleared) =>
                  procs[p].ephAtReturn = procs[p].ephRead
            /\ ~procs[p].ephRead => ~procs[p].wrote

\* The locks a client's restartCommon got that are not done.
RestartHeld(p) == {l \in {procs[p].op, procs[p].sop} \ {NoLock} : ~locks[l].done}

\* C37: when restartCommon has returned an error after the restart lock was created
\* (the update of the ephemeral flag failed, the stop phase failed, the instance was
\* frozen, the start failed), the locks the call got are done.
C37_ErrorCompletesLock ==
    \A p \in DOMAIN procs :
        (procs[p].call = "restart" /\ procs[p].pc = "done"
           /\ procs[p].ret \notin {"nil", "createRestart"}) => RestartHeld(p) = {}

(***************************************************************************)
(* snapshotCommon                                                          *)
(***************************************************************************)

\* The mount reference count the parent volume may have before the call.
MaxMounts == 1

SnapNames == {"snap0", "snap1"}

SnapCall(call, ok) == [call |-> call, ok |-> ok]

SnapshotReverterNoDelete(step, reverter) ==
    CASE step = "createInternal" -> Append(reverter, "cleanup")
      [] step = "updateBackupFile" -> <<>>
      [] OTHER -> reverter

\* The reverter of snapshotCommon after `step` has succeeded: reverter.Add(cleanup),
\* reverter.Add(snap.Delete), reverter.Success().
SnapshotReverter(step, reverter) ==
    CASE step = "createInternal" -> Append(reverter, "cleanup")
      [] step = "createSnapshot" -> Append(reverter, "delete")
      [] step = "updateBackupFile" -> <<>>
      [] OTHER -> reverter

\* The deferred calls of snapshotCommon after `step` has succeeded.
SnapshotDeferred(step, deferred) ==
    CASE step = "createInternal" -> Append(deferred, "opDone")
      [] step = "mount" -> Append(deferred, "unmount")
      [] OTHER -> deferred

\* The step that follows `step` in snapshotCommon.
SnapshotFollowing(step) ==
    CASE step = "createInternal" -> "loadPool"
      [] step = "loadPool" -> "createSnapshot"
      [] step = "createSnapshot" -> "mount"
      [] step = "mount" -> "updateBackupFile"
      [] OTHER -> "return"

SnapshotIdle ==
    /\ snInput = [name |-> "snap0"]
    /\ snPc = "idle"
    /\ snRecords = {}
    /\ snVolumes = {}
    /\ snMounts = 0
    /\ snReverter = <<>>
    /\ snDeferred = <<>>
    /\ snLog = <<>>
    /\ snResult = "none"
    /\ snPre = [records |-> {}, volumes |-> {}, mounts |-> 0]

\* snapshotCommon is called: reverter := revert.New(); defer reverter.Fail().
SnapshotStart ==
    /\ snInput \in [name : SnapNames]
    /\ snPc = "createInternal"
    /\ snRecords \in SUBSET SnapNames
    /\ snVolumes = snRecords
    /\ snMounts \in 0..MaxMounts
    /\ snReverter = <<>>
    /\ snDeferred = <<"reverterFail">>
    /\ snLog = <<>>
    /\ snResult = "none"
    /\ snPre = [records |-> snRecords, volumes |-> snVolumes, mounts |-> snMounts]

\* A step of snapshotCommon has returned: on success its hooks and deferred calls are
\* registered and the next step follows, on failure the function returns.
SnStepDone(step, ok) ==
    /\ snLog' = Append(snLog, SnapCall(step, ok))
    /\ IF ok
       THEN /\ snReverter' = SnapshotReverter(step, snReverter)
            /\ snDeferred' = SnapshotDeferred(step, snDeferred)
            /\ snPc' = SnapshotFollowing(step)
            /\ snResult' = IF SnapshotFollowing(step) = "return" THEN "ok" ELSE snResult
       ELSE /\ snPc' = "return"
            /\ snResult' = step
            /\ UNCHANGED <<snReverter, snDeferred>>

\* instance.CreateInternal: the snapshot's record is created, unless the name is taken
\* or the database fails.
SnCreateInternal ==
    /\ snPc = "createInternal"
    /\ \E ok \in BOOLEAN :
          /\ snInput.name \in snRecords => ~ok
          /\ snRecords' = IF ok THEN snRecords \cup {snInput.name} ELSE snRecords
          /\ SnStepDone("createInternal", ok)
    /\ UNCHANGED <<snInput, snVolumes, snMounts, snPre>>
    /\ UNCHANGED <<firstVars, rebuildVars, aclVars, newerVars>>

\* storagePools.LoadByInstance
SnLoadPool ==
    /\ snPc = "loadPool"
    /\ \E ok \in BOOLEAN : SnStepDone("loadPool", ok)
    /\ UNCHANGED <<snInput, snRecords, snVolumes, snMounts, snPre>>
    /\ UNCHANGED <<firstVars, rebuildVars, aclVars, newerVars>>

\* pool.CreateInstanceSnapshot
SnCreateSnapshot ==
    /\ snPc = "createSnapshot"
    /\ \E ok \in BOOLEAN :
          /\ snVolumes' = IF ok THEN snVolumes \cup {snInput.name} ELSE snVolumes
          /\ SnStepDone("createSnapshot", ok)
    /\ UNCHANGED <<snInput, snRecords, snMounts, snPre>>
    /\ UNCHANGED <<firstVars, rebuildVars, aclVars, newerVars>>

\* pool.MountInstance of the parent
SnMount ==
    /\ snPc = "mount"
    /\ \E ok \in BOOLEAN :
          /\ snMounts' = IF ok THEN snMounts + 1 ELSE snMounts
          /\ SnStepDone("mount", ok)
    /\ UNCHANGED <<snInput, snRecords, snVolumes, snPre>>
    /\ UNCHANGED <<firstVars, rebuildVars, aclVars, newerVars>>

\* inst.UpdateBackupFile, then reverter.Success()
SnUpdateBackupFile ==
    /\ snPc = "updateBackupFile"
    /\ \E ok \in BOOLEAN : SnStepDone("updateBackupFile", ok)
    /\ UNCHANGED <<snInput, snRecords, snVolumes, snMounts, snPre>>
    /\ UNCHANGED <<firstVars, rebuildVars, aclVars, newerVars>>

\* The function returns: the deferred calls run, last deferred first. The unmount may
\* fail, its error is dropped; reverter.Fail() hands over to the hooks.
SnDeferredStep ==
    /\ snPc = "return"
    /\ snDeferred # <<>>
    /\ LET call == snDeferred[Len(snDeferred)]
       IN  /\ snDeferred' = SubSeq(snDeferred, 1, Len(snDeferred) - 1)
           /\ \E ok \in BOOLEAN :
                 /\ call # "unmount" => ok
                 /\ snLog' = Append(snLog, SnapCall(call, ok))
                 /\ snMounts' = IF call = "unmount" /\ ok THEN snMounts - 1 ELSE snMounts
           /\ snPc' = IF call = "reverterFail" THEN "revert" ELSE "return"
    /\ UNCHANGED <<snInput, snRecords, snVolumes, snReverter, snResult, snPre>>
    /\ UNCHANGED <<firstVars, rebuildVars, aclVars, newerVars>>

\* reverter.Fail(): the hooks run, last added first. snap.Delete removes the snapshot's
\* volume and record and may fail (its error is dropped); cleanup removes the record.
SnRevertStep ==
    /\ snPc = "revert"
    /\ snReverter # <<>>
    /\ LET h == snReverter[Len(snReverter)]
       IN  /\ snReverter' = SubSeq(snReverter, 1, Len(snReverter) - 1)
           /\ \E ok \in BOOLEAN :
                 /\ h = "cleanup" => ok
                 /\ snLog' = Append(snLog, SnapCall(h, ok))
                 /\ snVolumes' = IF h = "delete" /\ ok THEN snVolumes \ {snInput.name}
                                 ELSE snVolumes
                 /\ snRecords' = IF ok THEN snRecords \ {snInput.name} ELSE snRecords
    /\ UNCHANGED <<snInput, snPc, snMounts, snDeferred, snResult, snPre>>
    /\ UNCHANGED <<firstVars, rebuildVars, aclVars, newerVars>>

\* snapshotCommon has returned.
SnReturned ==
    /\ snPc = "revert"
    /\ snReverter = <<>>
    /\ snPc' = "done"
    /\ UNCHANGED <<snInput, snRecords, snVolumes, snMounts, snReverter, snDeferred, snLog,
                   snResult, snPre>>
    /\ UNCHANGED <<firstVars, rebuildVars, aclVars, newerVars>>

NextSnapshot ==
    \/ SnCreateInternal
    \/ SnLoadPool
    \/ SnCreateSnapshot
    \/ SnMount
    \/ SnUpdateBackupFile
    \/ SnDeferredStep
    \/ SnRevertStep
    \/ SnReturned

\* ---- properties of snapshotCommon ----

\* The positions of the log at which `call` was made.
SnapCalls(call) == {i \in 1..Len(snLog) : snLog[i].call = call}

SnapSucceeded(call) == \E i \in SnapCalls(call) : snLog[i].ok

KeyImagePrefix == <<"image", ".">>
KeyBaseImage == <<"volatile", ".", "base_image">>
KeyUUID == <<"volatile", ".", "uuid">>
KeyUUIDGeneration == <<"volatile", ".", "uuid", ".", "generation">>
KeyIdmapNext == <<"volatile", ".", "idmap", ".", "next">>
KeyLastStateIdmap == <<"volatile", ".", "last_state", ".", "idmap">>

\* The keys the local config of the model may hold before the rebuild.
RebuildKeys ==
    { KeyImagePrefix \o <<"os">>, KeyImagePrefix \o <<"release">>, <<"image">>,
      KeyBaseImage, KeyUUID, KeyUUIDGeneration, KeyIdmapNext, KeyLastStateIdmap }

\* The value each key has before the rebuild, when present.
RebuildValue(k) ==
    CASE k = KeyUUID -> "uuid1"
      [] k = KeyUUIDGeneration -> "gen0"
      [] k = KeyBaseImage -> "fp0"
      [] OTHER -> "old"

\* img: nil, or an image with its fingerprint and properties.
NoImage == [present |-> FALSE, fingerprint |-> "", properties |-> <<>>]
ImageBare == [present |-> TRUE, fingerprint |-> "fp1", properties |-> <<>>]
ImageOs == [present |-> TRUE, fingerprint |-> "fp1",
            properties |-> (<<"os">> :> "new")]
ImageOsArch == [present |-> TRUE, fingerprint |-> "fp2",
                properties |-> (<<"os">> :> "new") @@ (<<"architecture">> :> "x86_64")]
Images == {NoImage, ImageBare, ImageOs, ImageOsArch}

\* delete(m, k) for every k of keys
MapDelete(m, keys) == [k \in DOMAIN m \ keys |-> m[k]]

\* The image.<k> entries of an image's properties.
ImageKeys(img) ==
    [k \in {KeyImagePrefix \o p : p \in DOMAIN img.properties} |->
        img.properties[TrimPrefix(k, KeyImagePrefix)]]

RebuildConfigKeepIdmap(config, img) ==
    LET reset == MapDelete(config, {k \in DOMAIN config : HasPrefix(k, KeyImagePrefix)}
                                     \cup {KeyBaseImage})
    IN  IF img.present
        THEN (KeyBaseImage :> img.fingerprint)
               @@ (KeyUUIDGeneration :> MapGet(reset, KeyUUID))
               @@ ImageKeys(img) @@ reset
        ELSE reset

\* The config rebuildCommon computes (in place, in the instance's local config map).
RebuildConfig(config, img) ==
    LET reset == MapDelete(config, {k \in DOMAIN config : HasPrefix(k, KeyImagePrefix)}
                                     \cup {KeyBaseImage})
        set == IF img.present
               THEN (KeyBaseImage :> img.fingerprint)
                      @@ (KeyUUIDGeneration :> MapGet(reset, KeyUUID))
                      @@ ImageKeys(img) @@ reset
               ELSE reset
    IN  MapDelete(set, {KeyIdmapNext, KeyLastStateIdmap})

\* The storage call that recreates the instance's volume.
RebuildCreateCall(img) ==
    IF img.present THEN "CreateInstanceFromImage" ELSE "CreateInstance"

RebuildIdle ==
    /\ rbInput = NoImage
    /\ rbPc = "idle"
    /\ rbConfig = <<>>
    /\ rbRow = <<>>
    /\ rbLog = <<>>
    /\ rbResult = "none"
    /\ rbPre = <<>>

\* rebuildCommon is called on an instance whose config row equals its local config.
RebuildStart ==
    /\ rbInput \in Images
    /\ rbPc = "reset"
    /\ \E keys \in SUBSET RebuildKeys : rbConfig = [k \in keys |-> RebuildValue(k)]
    /\ rbRow = rbConfig
    /\ rbLog = <<>>
    /\ rbResult = "none"
    /\ rbPre = rbConfig

\* instLocalConfig := d.localConfig is the same map: the keys are reset in it.
RbReset ==
    /\ rbPc = "reset"
    /\ rbConfig' = RebuildConfig(rbConfig, rbInput)
    /\ rbPc' = "getStoragePool"
    /\ UNCHANGED <<rbInput, rbRow, rbLog, rbResult, rbPre>>
    /\ UNCHANGED <<firstVars, snapVars, aclVars, newerVars>>

\* A call of rebuildCommon returns: on an error the function returns it.
RbCalled(call, ok, following) ==
    /\ rbLog' = Append(rbLog, [call |-> call, ok |-> ok])
    /\ rbPc' = IF ok THEN following ELSE "done"
    /\ rbResult' = IF ~ok THEN call ELSE IF following = "done" THEN "ok" ELSE rbResult

\* d.getStoragePool
RbGetStoragePool ==
    /\ rbPc = "getStoragePool"
    /\ \E ok \in BOOLEAN : RbCalled("getStoragePool", ok, "delete")
    /\ UNCHANGED <<rbInput, rbConfig, rbRow, rbPre>>
    /\ UNCHANGED <<firstVars, snapVars, aclVars, newerVars>>

\* pool.DeleteInstance
RbDeleteInstance ==
    /\ rbPc = "delete"
    /\ \E ok \in BOOLEAN : RbCalled("DeleteInstance", ok, "create")
    /\ UNCHANGED <<rbInput, rbConfig, rbRow, rbPre>>
    /\ UNCHANGED <<firstVars, snapVars, aclVars, newerVars>>

\* pool.CreateInstance or pool.CreateInstanceFromImage
RbCreateInstance ==
    /\ rbPc = "create"
    /\ \E ok \in BOOLEAN : RbCalled(RebuildCreateCall(rbInput), ok, "transaction")
    /\ UNCHANGED <<rbInput, rbConfig, rbRow, rbPre>>
    /\ UNCHANGED <<firstVars, snapVars, aclVars, newerVars>>

\* The transaction writes the config row (and the image's last use date) or nothing;
\* after it d.localConfig = instLocalConfig.
RbTransaction ==
    /\ rbPc = "transaction"
    /\ \E ok \in BOOLEAN :
          /\ RbCalled("Transaction", ok, "done")
          /\ rbRow' = IF ok THEN rbConfig ELSE rbRow
    /\ UNCHANGED <<rbInput, rbConfig, rbPre>>
    /\ UNCHANGED <<firstVars, snapVars, aclVars, newerVars>>

NextRebuild ==
    \/ RbReset
    \/ RbGetStoragePool
    \/ RbDeleteInstance
    \/ RbCreateInstance
    \/ RbTransaction

\* ---- properties of rebuildCommon ----

RebuildCalls(call) == {i \in 1..Len(rbLog) : rbLog[i].call = call /\ rbLog[i].ok}

\* What the claim says of a successful rebuild, but for the uuid generation marker.
RebuildOutcome ==
    /\ \A k \in DOMAIN rbConfig :
          HasPrefix(k, KeyImagePrefix) =>
              TrimPrefix(k, KeyImagePrefix) \in DOMAIN rbInput.properties
    /\ \A p \in DOMAIN rbInput.properties :
          /\ KeyImagePrefix \o p \in DOMAIN rbConfig
          /\ rbConfig[KeyImagePrefix \o p] = rbInput.properties[p]
    /\ KeyIdmapNext \notin DOMAIN rbConfig
    /\ KeyLastStateIdmap \notin DOMAIN rbConfig
    /\ IF rbInput.present
       THEN KeyBaseImage \in DOMAIN rbConfig /\ rbConfig[KeyBaseImage] = rbInput.fingerprint
       ELSE KeyBaseImage \notin DOMAIN rbConfig
    /\ \A k \in DOMAIN rbPre :
          (~HasPrefix(k, KeyImagePrefix)
             /\ k \notin {KeyBaseImage, KeyUUIDGeneration, KeyIdmapNext, KeyLastStateIdmap}) =>
                 k \in DOMAIN rbConfig /\ rbConfig[k] = rbPre[k]
    /\ rbRow = rbConfig
    /\ \E i \in RebuildCalls("DeleteInstance") :
          \E j \in RebuildCalls(RebuildCreateCall(rbInput)) :
             \E t \in RebuildCalls("Transaction") : i < j /\ j < t

\* The marker is set anew from the instance's uuid.
MarkerRegenerated ==
    /\ KeyUUIDGeneration \in DOMAIN rbConfig
    /\ rbConfig[KeyUUIDGeneration] = MapGet(rbPre, KeyUUID)

\* The marker is as it was before the call.
MarkerUntouched ==
    IF KeyUUIDGeneration \in DOMAIN rbPre
    THEN KeyUUIDGeneration \in DOMAIN rbConfig
           /\ rbConfig[KeyUUIDGeneration] = rbPre[KeyUUIDGeneration]
    ELSE KeyUUIDGeneration \notin DOMAIN rbConfig

\* C12 (as stated): after a successful rebuildCommon the config has only the image's
\* image.* keys, no idmap keys, volatile.base_image equal to the fingerprint (absent
\* without image), a regenerated volatile.uuid.generation; DeleteInstance preceded the
\* create call and the row was written after both.
C12_RebuildAsClaimed ==
    (rbPc = "done" /\ rbResult = "ok") => RebuildOutcome /\ MarkerRegenerated

\* C12 (amended): as above, but volatile.uuid.generation is set (to the value of
\* volatile.uuid) only when an image is supplied and is left as it was otherwise; and
\* at no time is the config row written before both storage steps have succeeded.
C12_Rebuild ==
    /\ (rbPc = "done" /\ rbResult = "ok") =>
          /\ RebuildOutcome
          /\ IF rbInput.present THEN MarkerRegenerated ELSE MarkerUntouched
    /\ rbRow # rbPre =>
          /\ RebuildCalls("DeleteInstance") # {}
          /\ RebuildCalls(RebuildCreateCall(rbInput)) # {}
    /\ RebuildCalls("CreateInstance") \cup RebuildCalls("CreateInstanceFromImage") # {} =>
          RebuildCalls("DeleteInstance") # {}

\* C12 witness: a rebuild from an image with properties succeeded on a config that
\* held other image.* keys, both idmap keys and an old marker.
C12_Witness ==
    /\ rbPc = "done" /\ rbResult = "ok" /\ rbInput = ImageOsArch
    /\ DOMAIN rbPre = RebuildKeys

\* A rebuild without image succeeded on a config that held an old marker.
C12_WitnessNoImage ==
    /\ rbPc = "done" /\ rbResult = "ok" /\ rbInput = NoImage
    /\ DOMAIN rbPre = RebuildKeys

\* The instance has its root volume: it was not deleted, or it was created again.
RebuildHasVolume ==
    \/ RebuildCalls("DeleteInstance") = {}
    \/ RebuildCalls(RebuildCreateCall(rbInput)) # {}

\* C33: when rebuildCommon has returned an error the instance is as before the
\* call: its local config in memory and its config row are unchanged and it has its
\* root volume.
C33_ErrorLeavesInstance ==
    (rbPc = "done" /\ rbResult # "ok") =>
        /\ rbConfig = rbPre
        /\ rbRow = rbPre
        /\ RebuildHasVolume

(***************************************************************************)
(* Network ACL validation: validateConfig, validateRule,                   *)
(* validateRuleSubjects, validatePorts                                     *)
(*                                                                         *)
(* A field of a rule is a string, that is a sequence of tokens; ",", " ",  *)
(* "-", "@", "#" and "$" are tokens of their own, so that splitting,       *)
(* trimming and prefix tests are computed as the code computes them.  An   *)
(* error is its message; NoError is Go's nil error.                        *)
(***************************************************************************)

NoError == "nil"

EmptyString == << >>

RECURSIVE Str(_)
\* The text of a string, as fmt prints it with %s.
Str(s) == IF s = << >> THEN "" ELSE Head(s) \o Str(Tail(s))

\* The text of a string as fmt prints it with %q.
Quote(s) == "\"" \o Str(s) \o "\""

RECURSIVE Split(_, _)
\* strings.SplitN(s, sep, -1): the parts between the separators, in order.
Split(s, sep) ==
    IF \A i \in 1..Len(s) : s[i] # sep
        THEN <<s>>
        ELSE LET i == CHOOSE j \in 1..Len(s) :
                          s[j] = sep /\ \A k \in 1..(j - 1) : s[k] # sep
             IN  <<SubSeq(s, 1, i - 1)>> \o Split(SubSeq(s, i + 1, Len(s)), sep)

RECURSIVE TrimLeft(_, _)
\* strings.TrimLeft(s, c) for a one-character cutset.
TrimLeft(s, c) == IF s # << >> /\ Head(s) = c THEN TrimLeft(Tail(s), c) ELSE s

RECURSIVE TrimRight(_, _)
\* strings.TrimRight(s, c) for a one-character cutset.
TrimRight(s, c) ==
    IF s # << >> /\ s[Len(s)] = c THEN TrimRight(SubSeq(s, 1, Len(s) - 1), c) ELSE s

\* strings.Trim(s, c) for a one-character cutset.
Trim(s, c) == TrimRight(TrimLeft(s, c), c)

\* strings.TrimSpace(s); the only white space of the model is " ".
TrimSpace(s) == Trim(s, " ")

RECURSIVE Join(_, _)
\* strings.Join(parts, sep)
Join(parts, sep) ==
    IF parts = << >> THEN << >>
    ELSE IF Len(parts) = 1 THEN parts[1]
    ELSE parts[1] \o <<sep>> \o Join(Tail(parts), sep)

\* util.SplitNTrimSpace(s, sep, -1, nilIfEmpty): the trimmed parts of s.
SplitNTrimSpace(s, sep, nilIfEmpty) ==
    IF nilIfEmpty /\ s = << >> THEN << >>
    ELSE LET parts == Split(s, sep)
         IN  [i \in 1..Len(parts) |-> TrimSpace(parts[i])]

\* api.NetworkACLRule.Normalise: the scalar fields trimmed, the list fields
\* split at the commas, each part trimmed, and joined again.
Normalise(rule) ==
    [Action          |-> TrimSpace(rule.Action),
     State           |-> TrimSpace(rule.State),
     Source          |-> Join(SplitNTrimSpace(rule.Source, ",", TRUE), ","),
     Destination     |-> Join(SplitNTrimSpace(rule.Destination, ",", TRUE), ","),
     Protocol        |-> TrimSpace(rule.Protocol),
     SourcePort      |-> Join(SplitNTrimSpace(rule.SourcePort, ",", TRUE), ","),
     DestinationPort |-> Join(SplitNTrimSpace(rule.DestinationPort, ",", TRUE), ","),
     ICMPType        |-> TrimSpace(rule.ICMPType),
     ICMPCode        |-> TrimSpace(rule.ICMPCode),
     Description     |-> TrimSpace(rule.Description)]

ruleDirectionIngress == "ingress"

ruleDirectionEgress == "egress"

ruleSubjectInternal == <<"@", "internal">>

ruleSubjectExternal == <<"@", "external">>

ruleSubjectInternalAliases == <<ruleSubjectInternal, <<"#", "internal">>>>

ruleSubjectExternalAliases == <<ruleSubjectExternal, <<"#", "external">>>>

ValidActions == <<"allow", "allow-stateless", "drop", "reject">>

\* slices.Contains(list, s) for a string s of the model.
Contains(list, s) == \E i \in 1..Len(list) : s = <<list[i]>>

RECURSIVE JoinText(_, _)
\* strings.Join(list, sep) as text, for the lists quoted in messages.
JoinText(list, sep) ==
    IF list = << >> THEN ""
    ELSE IF Len(list) = 1 THEN list[1]
    ELSE list[1] \o sep \o JoinText(Tail(list), sep)

\* The addresses net.ParseIP accepts, by family.
IPv4Addresses == {"10.0.0.1", "10.0.0.9"}

IPv6Addresses == {"fe80::1", "fd00::9"}

\* The networks net.ParseCIDR accepts, by family.
IPv4Networks == {"10.0.0.0/24"}

IPv6Networks == {"fd00::/64"}

\* The ACLs of the project and its address sets, as the database holds them.
AclNames == {<<"acl1">>}

AddressSets == {<<"set1">>}

\* The outcome of a check of a subject: its IP version, or an error.
Version(v) == [err |-> NoError, ipVersion |-> v]

Failed(msg) == [err |-> msg, ipVersion |-> 0]

\* net.ParseIP(value) and To4: the family of an address, 0 for no address.
ParseIP(value) ==
    IF Len(value) # 1 THEN 0
    ELSE IF value[1] \in IPv4Addresses THEN 4
    ELSE IF value[1] \in IPv6Addresses THEN 6
    ELSE 0

isNetworkAddress(value) ==
    IF ParseIP(value) = 0
        THEN Failed("Not an IP address " \o Quote(value))
        ELSE Version(ParseIP(value))

isNetworkAddressCIDR(value) ==
    IF Len(value) = 1 /\ value[1] \in IPv4Networks THEN Version(4)
    ELSE IF Len(value) = 1 /\ value[1] \in IPv6Networks THEN Version(6)
    ELSE Failed("invalid CIDR address: " \o Str(value))

\* validate.IsNetworkRange(value): two addresses of one family around a "-".
IsNetworkRange(value) ==
    LET ips == Split(value, "-")
    IN  /\ Len(ips) = 2
        /\ ParseIP(ips[1]) # 0
        /\ ParseIP(ips[1]) = ParseIP(ips[2])

isNetworkRange(value) ==
    IF ~IsNetworkRange(value)
        THEN Failed("IP range must contain start and end IP addresses")
        ELSE Version(ParseIP(Split(value, "-")[1]))

\* The closure validSubject of validateRuleSubjects, from the outcome of the
\* three checks of a network address.
SubjectOutcome(subject, address, cidr, range, fieldName, direction, allowNames, names) ==
    IF address.err = NoError THEN address
    ELSE IF cidr.err = NoError THEN cidr
    ELSE IF range.err = NoError THEN range
    ELSE IF \E i \in 1..Len(names) : subject = names[i]
        THEN IF allowNames THEN Version(0)
             ELSE Failed("Named subjects not allowed in " \o Quote(<<fieldName>>)
                         \o " for " \o Quote(<<direction>>) \o " rules")
    ELSE IF HasPrefix(subject, <<"@">>)
        THEN IF allowNames THEN Version(0)
             ELSE Failed("Named subjects not allowed in " \o Quote(<<fieldName>>)
                         \o " for " \o Quote(<<direction>>) \o " rules")
    ELSE IF HasPrefix(subject, <<"$">>)
        THEN IF Trim(subject, "$") \notin AddressSets
                 THEN Failed("Failed getting network address set "
                             \o Quote(Trim(subject, "$"))
                             \o " for subject validation: not found")
                 ELSE Version(0)
    ELSE Failed("Invalid subject " \o Quote(subject))

validSubject(subject, fieldName, direction, allowSubjectNames, validSubjectNames) ==
    SubjectOutcome(subject, isNetworkAddress(subject), isNetworkAddressCIDR(subject),
                   isNetworkRange(subject), fieldName, direction, allowSubjectNames,
                   validSubjectNames)

\* The first error of a sequence of errors, in its order; nil if it has none.
FirstError(errs) ==
    IF \A i \in 1..Len(errs) : errs[i] = NoError THEN NoError
    ELSE errs[CHOOSE i \in 1..Len(errs) :
                  errs[i] # NoError /\ \A j \in 1..(i - 1) : errs[j] = NoError]

\* The outcome of validateRuleSubjects were IPv6 addresses not recorded.
SubjectsOutcomeNoIPv6(checks) ==
    IF FirstError([i \in 1..Len(checks) |-> checks[i].err]) # NoError
        THEN [hasName |-> FALSE, hasIPv4 |-> FALSE, hasIPv6 |-> FALSE,
              err |-> FirstError([i \in 1..Len(checks) |-> checks[i].err])]
        ELSE [hasName |-> \E i \in 1..Len(checks) : checks[i].ipVersion = 0,
              hasIPv4 |-> \E i \in 1..Len(checks) : checks[i].ipVersion = 4,
              hasIPv6 |-> FALSE,
              err |-> NoError]

\* What validateRuleSubjects returns, from the outcome of each subject.
SubjectsOutcome(checks) ==
    IF FirstError([i \in 1..Len(checks) |-> checks[i].err]) # NoError
        THEN [hasName |-> FALSE, hasIPv4 |-> FALSE, hasIPv6 |-> FALSE,
              err |-> FirstError([i \in 1..Len(checks) |-> checks[i].err])]
        ELSE [hasName |-> \E i \in 1..Len(checks) : checks[i].ipVersion = 0,
              hasIPv4 |-> \E i \in 1..Len(checks) : checks[i].ipVersion = 4,
              hasIPv6 |-> \E i \in 1..Len(checks) : checks[i].ipVersion = 6,
              err |-> NoError]

\* Whether subjects by name are allowed in the field of a rule of the direction.
AllowSubjectNames(fieldName, direction) ==
    \/ fieldName = "Source" /\ direction = ruleDirectionIngress
    \/ fieldName = "Destination" /\ direction = ruleDirectionEgress

\* validateRuleSubjects: the error of the first subject that is not valid, or
\* whether the subjects include names, IPv4 and IPv6 addresses.
validateRuleSubjects(fieldName, direction, subjects, validSubjectNames) ==
    SubjectsOutcome([i \in 1..Len(subjects) |->
                        validSubject(subjects[i], fieldName, direction,
                                     AllowSubjectNames(fieldName, direction),
                                     validSubjectNames)])

\* validate.IsNetworkPortRange(port): a port, or two ports around a "-".
ValidPorts == {"80", "90", "443"}

IsNetworkPortRange(port) ==
    LET ends == Split(port, "-")
    IN  /\ Len(ends) \in {1, 2}
        /\ \A i \in 1..Len(ends) : Len(ends[i]) = 1 /\ ends[i][1] \in ValidPorts

\* validatePorts
validatePorts(ports) ==
    IF \A i \in 1..Len(ports) : IsNetworkPortRange(ports[i])
        THEN NoError
        ELSE "Invalid port range"

\* validate.IsUint8(value)
Uint8Texts == {"0", "8", "255"}

IsUint8(value) ==
    IF Len(value) = 1 /\ value[1] \in Uint8Texts THEN NoError ELSE "Invalid value for uint8"

\* The subjects that are valid by name: the aliases, then the project's ACLs.
RECURSIVE SetToSeq(_)
SetToSeq(S) ==
    IF S = {} THEN << >>
    ELSE LET x == CHOOSE y \in S : TRUE IN <<x>> \o SetToSeq(S \ {x})

ValidSubjectNames ==
    ruleSubjectInternalAliases \o ruleSubjectExternalAliases \o SetToSeq(AclNames)

NoSubjects == [hasName |-> FALSE, hasIPv4 |-> FALSE, hasIPv6 |-> FALSE, err |-> NoError]

\* The test of the families without regard to the subjects by name.
FamiliesConflictNoName(src, dst) ==
    \/ src.hasIPv4 /\ ~dst.hasIPv4
    \/ dst.hasIPv4 /\ ~src.hasIPv4
    \/ src.hasIPv6 /\ ~dst.hasIPv6
    \/ dst.hasIPv6 /\ ~src.hasIPv6

\* The test of validateRule on the families of Source and Destination.
FamiliesConflict(src, dst) ==
    \/ src.hasIPv4 /\ ~dst.hasIPv4 /\ ~dst.hasName
    \/ dst.hasIPv4 /\ ~src.hasIPv4 /\ ~src.hasName
    \/ src.hasIPv6 /\ ~dst.hasIPv6 /\ ~dst.hasName
    \/ dst.hasIPv6 /\ ~src.hasIPv6 /\ ~src.hasName

\* The check of a port field of a tcp or udp rule.
PortsError(name, field, err) ==
    IF field # EmptyString /\ err # NoError
        THEN "Invalid " \o name \o " port: " \o err
        ELSE NoError

\* The check of an ICMP field of an icmp4 or icmp6 rule.
IcmpError(name, field, err) ==
    IF field # EmptyString /\ err # NoError
        THEN "Invalid ICMP " \o name \o ": " \o err
        ELSE NoError

\* A protocol dependent part that rejects only an ICMP type with tcp or udp.
ValidateProtocolFieldsLax(rule, src, dst) ==
    IF Contains(<<"tcp", "udp">>, rule.Protocol) /\ rule.ICMPType # EmptyString
        THEN "ICMP type cannot be used with non-ICMP protocol"
        ELSE NoError

\* The protocol dependent part of validateRule.
ValidateProtocolFields(rule, src, dst) ==
    IF Contains(<<"tcp", "udp">>, rule.Protocol) THEN
        IF rule.ICMPType # EmptyString
            THEN "ICMP type cannot be used with non-ICMP protocol"
        ELSE IF rule.ICMPCode # EmptyString
            THEN "ICMP code cannot be used with non-ICMP protocol"
        ELSE FirstError(<<
                 PortsError("Source", rule.SourcePort,
                            validatePorts(SplitNTrimSpace(rule.SourcePort, ",", FALSE))),
                 PortsError("Destination", rule.DestinationPort,
                            validatePorts(SplitNTrimSpace(rule.DestinationPort, ",",
                                                          FALSE)))>>)
    ELSE IF Contains(<<"icmp4", "icmp6">>, rule.Protocol) THEN
        IF rule.SourcePort # EmptyString
            THEN "Source port cannot be used with " \o Quote(rule.Protocol) \o " protocol"
        ELSE IF rule.DestinationPort # EmptyString
            THEN "Destination port cannot be used with " \o Quote(rule.Protocol)
                 \o " protocol"
        ELSE IF rule.Protocol = <<"icmp4">> /\ src.hasIPv6
            THEN "Cannot use IPv6 source addresses with " \o Quote(rule.Protocol)
                 \o " protocol"
        ELSE IF rule.Protocol = <<"icmp4">> /\ dst.hasIPv6
            THEN "Cannot use IPv6 destination addresses with " \o Quote(rule.Protocol)
                 \o " protocol"
        ELSE IF rule.Protocol = <<"icmp6">> /\ src.hasIPv4
            THEN "Cannot use IPv4 source addresses with " \o Quote(rule.Protocol)
                 \o " protocol"
        ELSE IF rule.Protocol = <<"icmp6">> /\ dst.hasIPv4
            THEN "Cannot use IPv4 destination addresses with " \o Quote(rule.Protocol)
                 \o " protocol"
        ELSE FirstError(<<IcmpError("type", rule.ICMPType, IsUint8(rule.ICMPType)),
                          IcmpError("code", rule.ICMPCode, IsUint8(rule.ICMPCode))>>)
    ELSE
        IF rule.ICMPType # EmptyString
            THEN "ICMP type cannot be used without specifying protocol"
        ELSE IF rule.ICMPCode # EmptyString
            THEN "ICMP code cannot be used without specifying protocol"
        ELSE IF rule.SourcePort # EmptyString
            THEN "Source port cannot be used without specifying protocol"
        ELSE IF rule.DestinationPort # EmptyString
            THEN "Destination port cannot be used without specifying protocol"
        ELSE NoError

\* The subjects of a field of a rule, as validateRule has them checked.
RuleSource(direction, rule) ==
    IF rule.Source = EmptyString THEN NoSubjects
    ELSE validateRuleSubjects("Source", direction,
                              SplitNTrimSpace(rule.Source, ",", FALSE), ValidSubjectNames)

RuleDestination(direction, rule) ==
    IF rule.Destination = EmptyString THEN NoSubjects
    ELSE validateRuleSubjects("Destination", direction,
                              SplitNTrimSpace(rule.Destination, ",", FALSE),
                              ValidSubjectNames)

\* validateRule, from what validateRuleSubjects returned for Source and for
\* Destination; dbFails: the transaction that loads the project's ACL names
\* returns an error.
RuleOutcome(rule, dbFails, src, dst) ==
    IF ~Contains(ValidActions, rule.Action)
        THEN "Action must be one of: " \o JoinText(ValidActions, ", ")
    ELSE IF ~Contains(<<"enabled", "disabled", "logged">>, rule.State)
        THEN "State must be one of: "
             \o JoinText(<<"enabled", "disabled", "logged">>, ", ")
    ELSE IF dbFails
        THEN "Failed getting network ACLs for security ACL subject validation: "
             \o "database error"
    ELSE IF src.err # NoError THEN "Invalid Source: " \o src.err
    ELSE IF dst.err # NoError THEN "Invalid Destination: " \o dst.err
    ELSE IF /\ rule.Source # EmptyString
            /\ rule.Destination # EmptyString
            /\ FamiliesConflict(src, dst)
        THEN "Conflicting IP family types used for Source and Destination"
    ELSE IF /\ rule.Protocol # EmptyString
            /\ ~Contains(<<"icmp4", "icmp6", "tcp", "udp">>, rule.Protocol)
        THEN "Protocol must be one of: "
             \o JoinText(<<"icmp4", "icmp6", "tcp", "udp">>, ", ")
    ELSE ValidateProtocolFields(rule, src, dst)

\* validateRule(direction, rule)
validateRule(direction, rule, dbFails) ==
    RuleOutcome(rule, dbFails, RuleSource(direction, rule),
                RuleDestination(direction, rule))

\* internalInstance.IsUserConfig(key)
IsUserConfig(key) == HasPrefix(key, <<"user", ".">>)

\* validateConfigMap(config, nil): every key has to be a user key.
validateConfigMap(config) ==
    IF \A k \in DOMAIN config : IsUserConfig(k) THEN NoError
    ELSE "Invalid config option "
         \o Quote(CHOOSE k \in DOMAIN config : ~IsUserConfig(k))

\* The lists of info after the loops of validateConfig that normalise them.
NormaliseRules(rules) == [i \in 1..Len(rules) |-> Normalise(rules[i])]

\* Whether the next position of the list holds a rule equal to that at i.
DuplicateOfAdjacent(rules, i) == i < Len(rules) /\ rules[i + 1] = rules[i]

\* Whether another position of the list holds a rule equal to that at i.
DuplicateOf(rules, i) == \E ri \in 1..Len(rules) : ri # i /\ rules[ri] = rules[i]

\* The error of the loop of validateConfig for the rule at a position, from
\* what validateRule returned for it; the positions of the messages count
\* from 0.
RuleError(direction, i, err, duplicate) ==
    IF err # NoError
        THEN "Invalid " \o direction \o " rule " \o ToString(i - 1) \o ": " \o err
    ELSE IF duplicate
        THEN "Duplicate of " \o direction \o " rule " \o ToString(i - 1)
    ELSE NoError

\* One of the two loops of validateConfig over the rules of a direction.
ValidateRules(direction, rules, dbFails) ==
    FirstError([i \in 1..Len(rules) |->
                   RuleError(direction, i, validateRule(direction, rules[i], dbFails),
                             DuplicateOf(rules, i))])

\* info with the rules of its two lists normalised.
NormaliseInfo(info) ==
    [info EXCEPT !.Ingress = NormaliseRules(info.Ingress),
                 !.Egress = NormaliseRules(info.Egress)]

\* What validateConfig returns and leaves behind, from the errors of its steps.
ConfigOutcome(info, normalised, errs) ==
    [err |-> FirstError(errs), info |-> IF errs[1] # NoError THEN info ELSE normalised]

\* validateConfig(info): its error, and info as the call leaves it.
validateConfig(info, dbFails) ==
    ConfigOutcome(info, NormaliseInfo(info),
                  <<validateConfigMap(info.Config),
                    ValidateRules(ruleDirectionIngress, NormaliseRules(info.Ingress),
                                  dbFails),
                    ValidateRules(ruleDirectionEgress, NormaliseRules(info.Egress),
                                  dbFails)>>)

\* ---- the calls of the model ----

MaxSubjects == 2

MaxRules == 3

Directions == {ruleDirectionIngress, ruleDirectionEgress}

EmptyRule ==
    [Action |-> << >>, State |-> << >>, Source |-> << >>, Destination |-> << >>,
     Protocol |-> << >>, SourcePort |-> << >>, DestinationPort |-> << >>,
     ICMPType |-> << >>, ICMPCode |-> << >>, Description |-> << >>]

PlainRule == [EmptyRule EXCEPT !.Action = <<"allow">>, !.State = <<"enabled">>]

EmptyInfo == [Config |-> << >>, Ingress |-> << >>, Egress |-> << >>]

\* The subjects by name, and those lists of several subjects are made of.
NamedSubjects ==
    {<<"acl1">>, <<"@", "internal">>, <<"@", "external">>, <<"#", "internal">>,
     <<"#", "external">>, <<"@", "peer1">>, <<"$", "set1">>}

AddressSubjects ==
    {<<"10.0.0.1">>, <<"10.0.0.0/24">>, <<"10.0.0.1", "-", "10.0.0.9">>,
     <<"fe80::1">>, <<"fd00::/64">>, <<"fe80::1", "-", "fd00::9">>}

Subjects == NamedSubjects \cup AddressSubjects \cup {<<"$", "nope">>, <<"bogus">>}

ListSubjects == {<<"10.0.0.1">>, <<"fe80::1">>, <<"@", "peer1">>, <<"$", "set1">>, <<"acl1">>}

RECURSIVE SeqsUpTo(_, _)
\* The sequences over S of length at most n.
SeqsUpTo(S, n) ==
    IF n = 0 THEN {<< >>}
    ELSE LET shorter == SeqsUpTo(S, n - 1)
         IN  shorter \cup {<<x>> \o s : x \in S, s \in {t \in shorter : Len(t) = n - 1}}

SubjectFields ==
    {Join(l, ",") : l \in SeqsUpTo(ListSubjects, MaxSubjects) \cup {<<s>> : s \in Subjects}}

\* Rules that differ in their subjects and in the family of the protocol.
SubjectRules ==
    {[PlainRule EXCEPT !.Source = s, !.Destination = d, !.Protocol = p] :
        s \in SubjectFields, d \in SubjectFields,
        p \in {<< >>, <<"icmp4">>, <<"icmp6">>}}

\* Rules that differ in the protocol and in the fields that depend on it.
ProtocolRules ==
    {[EmptyRule EXCEPT !.Action = a, !.State = st, !.Source = s, !.Protocol = p,
                       !.SourcePort = sp, !.DestinationPort = dp,
                       !.ICMPType = it, !.ICMPCode = ic] :
        a \in {<<"allow">>, <<"bogus">>},
        st \in {<<"enabled">>, << >>},
        s \in {<< >>, <<"fe80::1">>},
        p \in {<< >>, <<"tcp">>, <<"udp">>, <<"icmp4">>, <<"icmp6">>, <<"sctp">>},
        sp \in {<< >>, <<"80">>, <<"80", ",", "90", "-", "443">>, <<"http">>},
        dp \in {<< >>, <<"443">>},
        it \in {<< >>, <<"8">>, <<"256">>},
        ic \in {<< >>, <<"0">>}}

\* The rules validateRule is called with: validateConfig has normalised them.
RuleCalls == SubjectRules \cup ProtocolRules

\* The rules the lists of a configuration are made of, some of them not
\* normalised.
ConfigRules ==
    {[PlainRule EXCEPT !.Source = <<"10.0.0.1", ",", "fe80::1">>],
     [PlainRule EXCEPT !.Source = <<"10.0.0.1", ",", " ", "fe80::1">>],
     [PlainRule EXCEPT !.Source = <<"10.0.0.1", ",", "fe80::1">>,
                       !.Description = <<" ">>],
     [PlainRule EXCEPT !.Action = <<"drop">>, !.Protocol = <<"tcp">>,
                       !.DestinationPort = <<"443">>],
     [PlainRule EXCEPT !.State = <<"bogus">>]}

ConfigMaps ==
    {<< >>,
     [k \in {<<"user", ".", "comment">>} |-> <<"x">>],
     [k \in {<<"security", ".", "acls">>} |-> <<"x">>]}

\* The configurations validateConfig is called with: MaxRules rules at most,
\* the first of them ingress rules, the others egress rules.
Infos ==
    UNION {{[Config |-> c, Ingress |-> SubSeq(l, 1, k),
             Egress |-> SubSeq(l, k + 1, Len(l))] : c \in ConfigMaps, k \in 0..Len(l)} :
           l \in SeqsUpTo(ConfigRules, MaxRules)}

AvPending == "pending"

AclValidateIdle ==
    /\ avCall = [kind |-> "none", direction |-> ruleDirectionIngress, rule |-> EmptyRule,
                 info |-> EmptyInfo, dbFails |-> FALSE]
    /\ avInfo = EmptyInfo
    /\ avResult = AvPending

AclValidateStart ==
    /\ \/ \E direction \in Directions, rule \in RuleCalls, dbFails \in BOOLEAN :
            /\ avCall = [kind |-> "rule", direction |-> direction, rule |-> rule,
                         info |-> EmptyInfo, dbFails |-> dbFails]
            /\ avInfo = EmptyInfo
       \/ \E info \in Infos, dbFails \in BOOLEAN :
            /\ avCall = [kind |-> "config", direction |-> ruleDirectionIngress,
                         rule |-> EmptyRule, info |-> info, dbFails |-> dbFails]
            /\ avInfo = info
    /\ avResult = AvPending

\* validateRule, as validateConfig calls it for a rule of a list.
AclValidateRule ==
    /\ avCall.kind = "rule"
    /\ avResult = AvPending
    /\ avResult' = validateRule(avCall.direction, avCall.rule, avCall.dbFails)
    /\ UNCHANGED <<avCall, avInfo>>
    /\ UNCHANGED <<firstVars, snapVars, rebuildVars, aclUpdateVars, newerVars>>

\* validateConfig(info): info is normalised in place.
AclValidateConfig ==
    /\ avCall.kind = "config"
    /\ avResult = AvPending
    /\ \E outcome \in {validateConfig(avInfo, avCall.dbFails)} :
          /\ avResult' = outcome.err
          /\ avInfo' = outcome.info
    /\ UNCHANGED avCall
    /\ UNCHANGED <<firstVars, snapVars, rebuildVars, aclUpdateVars, newerVars>>

NextAclValidate == AclValidateRule \/ AclValidateConfig

\* ---- what the claims speak of ----

RuleValidated == avCall.kind = "rule" /\ avResult # AvPending

ConfigValidated == avCall.kind = "config" /\ avResult # AvPending

\* The subjects of a field.
SubjectsOf(field) ==
    IF field = EmptyString THEN {}
    ELSE {SplitNTrimSpace(field, ",", FALSE)[i] :
             i \in 1..Len(SplitNTrimSpace(field, ",", FALSE))}

\* The family of a subject that is an address, a network or a range.
FamilyOf(subject) ==
    IF isNetworkAddress(subject).err = NoError THEN isNetworkAddress(subject).ipVersion
    ELSE IF isNetworkAddressCIDR(subject).err = NoError
        THEN isNetworkAddressCIDR(subject).ipVersion
    ELSE IF isNetworkRange(subject).err = NoError THEN isNetworkRange(subject).ipVersion
    ELSE 0

\* A subject by name: an ACL of the project, @internal, @external or their
\* aliases, a peer, an address set of the project.
IsNamedSubject(subject) ==
    /\ FamilyOf(subject) = 0
    /\ \/ subject \in AclNames
       \/ subject \in {<<"@", "internal">>, <<"@", "external">>,
                       <<"#", "internal">>, <<"#", "external">>}
       \/ HasPrefix(subject, <<"@">>)
       \/ HasPrefix(subject, <<"$">>) /\ Trim(subject, "$") \in AddressSets

\* The rule without its protocol and the fields that depend on the protocol.
WithoutProtocol(rule) ==
    [rule EXCEPT !.Protocol = << >>, !.SourcePort = << >>, !.DestinationPort = << >>,
                 !.ICMPType = << >>, !.ICMPCode = << >>]

\* The checks of validateRule before those of the protocol pass.
ReachesProtocol ==
    validateRule(avCall.direction, WithoutProtocol(avCall.rule), avCall.dbFails) = NoError

\* No two positions of the list hold rules that are equal once normalised.
NoDuplicates(rules) ==
    \A i, j \in 1..Len(rules) : i # j => Normalise(rules[i]) # Normalise(rules[j])

\* C13: validateConfig accepts a rule set only if, once every rule is
\* normalised, no two positions of the ingress list hold equal rules and no
\* two positions of the egress list do; a list that holds a rule twice is
\* never accepted.
C13_NoDuplicateAccepted ==
    ConfigValidated =>
        /\ avResult = NoError =>
              NoDuplicates(avCall.info.Ingress) /\ NoDuplicates(avCall.info.Egress)
        /\ \A rules \in {avCall.info.Ingress, avCall.info.Egress} :
              (\E i, j \in 1..Len(rules) : i # j /\ rules[i] = rules[j])
                  => avResult # NoError

\* Two rules that differ as they were given and are equal once normalised
\* were refused as duplicates.
C13_Witness ==
    /\ ConfigValidated
    /\ avResult = "Duplicate of ingress rule 0"
    /\ Len(avCall.info.Ingress) = 3
    /\ avCall.info.Ingress[1] # avCall.info.Ingress[3]
    /\ avCall.info.Ingress[1] # avCall.info.Ingress[2]
    /\ Normalise(avCall.info.Ingress[1]) = Normalise(avCall.info.Ingress[3])
    /\ Normalise(avCall.info.Ingress[1]) # Normalise(avCall.info.Ingress[2])

\* The field of a rule of the direction that is not its origin.
NonOriginField(direction, rule) ==
    IF direction = ruleDirectionIngress THEN rule.Destination ELSE rule.Source

OriginField(direction, rule) ==
    IF direction = ruleDirectionIngress THEN rule.Source ELSE rule.Destination

\* C14: validateRule rejects every rule with a subject by name (an ACL of
\* the project, @internal, @external or their # aliases, an @ peer, a $
\* address set) in the Destination of an ingress rule or the Source of an
\* egress rule.
C14_NamedSubjectsOnlyInOrigin ==
    RuleValidated =>
        ((\E s \in SubjectsOf(NonOriginField(avCall.direction, avCall.rule)) :
              IsNamedSubject(s))
            => avResult # NoError)

\* C15: validateRule accepts SourcePort and DestinationPort only with tcp or
\* udp, ICMPType and ICMPCode only with icmp4 or icmp6; a tcp rule that is
\* valid but for its ICMPType "8" gets the error "ICMP type cannot be used
\* with non-ICMP protocol".
C15_ProtocolFields ==
    RuleValidated =>
        /\ avResult = NoError =>
              /\ (avCall.rule.SourcePort # EmptyString
                    \/ avCall.rule.DestinationPort # EmptyString)
                 => avCall.rule.Protocol \in {<<"tcp">>, <<"udp">>}
              /\ (avCall.rule.ICMPType # EmptyString \/ avCall.rule.ICMPCode # EmptyString)
                 => avCall.rule.Protocol \in {<<"icmp4">>, <<"icmp6">>}
        /\ (/\ avCall.rule.Protocol = <<"tcp">>
            /\ avCall.rule.ICMPType = <<"8">>
            /\ ReachesProtocol)
           => avResult = "ICMP type cannot be used with non-ICMP protocol"

\* Rules with a field the protocol does not allow were rejected: ICMP type
\* with tcp, a port with icmp4, a port without protocol.
C15_Witness ==
    /\ RuleValidated
    /\ ReachesProtocol
    /\ avCall.rule.Protocol = <<"tcp">>
    /\ avCall.rule.ICMPType = <<"8">>
    /\ avCall.rule.SourcePort = <<"80">>
    /\ avResult = "ICMP type cannot be used with non-ICMP protocol"

C15_WitnessNoProtocol ==
    /\ RuleValidated
    /\ ReachesProtocol
    /\ avCall.rule.Protocol = EmptyString
    /\ avCall.rule.DestinationPort = <<"443">>
    /\ avResult = "Source port cannot be used without specifying protocol"

C15_WitnessAccepted ==
    /\ RuleValidated
    /\ avCall.rule.Protocol = <<"udp">>
    /\ avCall.rule.SourcePort = <<"80", ",", "90", "-", "443">>
    /\ avResult = NoError

\* A subject of the field is an address, a network or a range of the family.
HasFamily(field, family) == \E s \in SubjectsOf(field) : FamilyOf(s) = family

\* The family the protocol is for: 4 for icmp4, 6 for icmp6.
OtherFamily(protocol) == IF protocol = <<"icmp4">> THEN 6 ELSE 4

IcmpFamilyMismatch ==
    /\ avCall.rule.Protocol \in {<<"icmp4">>, <<"icmp6">>}
    /\ \/ HasFamily(avCall.rule.Source, OtherFamily(avCall.rule.Protocol))
       \/ HasFamily(avCall.rule.Destination, OtherFamily(avCall.rule.Protocol))

\* C16 as stated: an icmp4 rule with an IPv6 subject, an icmp6 rule with an
\* IPv4 subject is rejected, and an icmp4 rule with Source "fe80::1" gets the
\* error "Cannot use IPv6 source addresses with icmp4".
C16_IcmpFamilyAsClaimed ==
    RuleValidated =>
        /\ IcmpFamilyMismatch => avResult # NoError
        /\ (avCall.rule.Protocol = <<"icmp4">> /\ avCall.rule.Source = <<"fe80::1">>)
           => avResult = "Cannot use IPv6 source addresses with icmp4"

\* C16: an icmp4 rule with an IPv6 address, network or range in Source or
\* Destination and an icmp6 rule with an IPv4 one are rejected; an icmp4 rule
\* with Source "fe80::1", without ports, that is valid but for its protocol
\* gets the error: Cannot use IPv6 source addresses with "icmp4" protocol.
C16_IcmpFamily ==
    RuleValidated =>
        /\ IcmpFamilyMismatch => avResult # NoError
        /\ (/\ avCall.rule.Protocol = <<"icmp4">>
            /\ avCall.rule.Source = <<"fe80::1">>
            /\ avCall.rule.SourcePort = EmptyString
            /\ avCall.rule.DestinationPort = EmptyString
            /\ ReachesProtocol)
           => avResult = "Cannot use IPv6 source addresses with \"icmp4\" protocol"

C16_Witness ==
    /\ RuleValidated
    /\ avCall.rule.Protocol = <<"icmp4">>
    /\ avCall.rule.Source = <<"fe80::1">>
    /\ avCall.rule.State = <<"enabled">>
    /\ avResult = "Cannot use IPv6 source addresses with \"icmp4\" protocol"

C16_WitnessIcmp6 ==
    /\ RuleValidated
    /\ avCall.rule.Protocol = <<"icmp6">>
    /\ avCall.rule.Destination = <<"10.0.0.1", "-", "10.0.0.9">>
    /\ avResult = "Cannot use IPv4 destination addresses with \"icmp6\" protocol"

\* A subject of the field is none of an address, a network or a range.
HasName(field) == \E s \in SubjectsOf(field) : FamilyOf(s) = 0

\* One side holds an address of a family, the other side neither an address of
\* that family nor a subject by name.
CrossesFamilies(rule) ==
    \E family \in {4, 6} :
        \/ /\ HasFamily(rule.Source, family)
           /\ ~HasFamily(rule.Destination, family)
           /\ ~HasName(rule.Destination)
        \/ /\ HasFamily(rule.Destination, family)
           /\ ~HasFamily(rule.Source, family)
           /\ ~HasName(rule.Source)

\* The checks of validateRule before that of the families pass.
ReachesFamilies ==
    /\ Contains(ValidActions, avCall.rule.Action)
    /\ Contains(<<"enabled", "disabled", "logged">>, avCall.rule.State)
    /\ ~avCall.dbFails
    /\ RuleSource(avCall.direction, avCall.rule).err = NoError
    /\ RuleDestination(avCall.direction, avCall.rule).err = NoError

\* C17: a rule with Source and Destination set, whose subjects are valid, is
\* rejected with "Conflicting IP family types used for Source and
\* Destination" exactly when one side holds an address of a family for which
\* the other side holds neither an address of that family nor a subject by
\* name.
C17_FamilyConflict ==
    (/\ RuleValidated
     /\ avCall.rule.Source # EmptyString
     /\ avCall.rule.Destination # EmptyString
     /\ ReachesFamilies)
        => (avResult = "Conflicting IP family types used for Source and Destination"
              <=> CrossesFamilies(avCall.rule))

C17_Witness ==
    /\ RuleValidated
    /\ HasFamily(avCall.rule.Source, 4)
    /\ HasFamily(avCall.rule.Source, 6)
    /\ avCall.rule.Destination = <<"10.0.0.0/24">>
    /\ avResult = "Conflicting IP family types used for Source and Destination"

C17_WitnessMediated ==
    /\ RuleValidated
    /\ avCall.direction = ruleDirectionEgress
    /\ avCall.rule.Source = <<"10.0.0.1", ",", "fe80::1">>
    /\ avCall.rule.Destination = <<"@", "peer1">>
    /\ avResult = NoError

(***************************************************************************)
(* Network ACL Update                                                      *)
(*                                                                         *)
(* Update runs on the member that received the request; its notifier has   *)
(* every other member run Update with the notifier's client type.  The     *)
(* database, the usage lookup, the firewall, bridge and OVN calls and the   *)
(* notifier are not part of the source: each of them either succeeds or    *)
(* returns an error, and a transaction that returns an error has written   *)
(* nothing.                                                                *)
(***************************************************************************)

NMembers == 2

MaxUpdates == 2

Members == 1..NMembers

\* The caller of an Update that comes from a user, not from a member.
NoMember == 0

ClientTypeNormal == "normal"

ClientTypeNotifier == "notifier"

\* The configuration of the ACL before the call, and those it is updated to:
\* a normalised one, one that is not normalised, one with a duplicate rule.
OldInfo ==
    [Config |-> << >>,
     Ingress |-> <<[PlainRule EXCEPT !.Action = <<"drop">>]>>,
     Egress |-> << >>]

UpdateInfos ==
    {[Config |-> << >>,
      Ingress |-> <<[PlainRule EXCEPT !.Source = <<"10.0.0.1", ",", "fe80::1">>]>>,
      Egress |-> << >>],
     [Config |-> << >>,
      Ingress |-> <<[PlainRule EXCEPT !.Source = <<"10.0.0.1", ",", " ", "fe80::1">>]>>,
      Egress |-> << >>],
     [Config |-> << >>,
      Ingress |-> <<[PlainRule EXCEPT !.Source = <<"10.0.0.1", ",", "fe80::1">>],
                    [PlainRule EXCEPT !.Source = <<"10.0.0.1", ",", " ", "fe80::1">>]>>,
      Egress |-> << >>]}

\* The ways a network uses the ACL, as NetworkUsage reports them: a bridge
\* network, a NIC on a bridge network, an OVN network, a network of a type
\* ACLs do not support.
UsageBridge == [Type |-> "bridge", DeviceName |-> ""]

UsageBridgeNIC == [Type |-> "bridge", DeviceName |-> "eth0"]

UsageOVN == [Type |-> "ovn", DeviceName |-> ""]

UsagePhysical == [Type |-> "physical", DeviceName |-> ""]

Usages == {UsageBridge, UsageBridgeNIC, UsageOVN, UsagePhysical}

\* The loop of Update over aclNets: the networks left in aclNets, those moved
\* to aclOVNNets and to aclBridgeNICs, and whether a type is not supported.
Partition(aclNets) ==
    [unsupported |-> \E v \in aclNets : v.Type # "ovn" /\ v.Type # "bridge",
     aclNets |-> {v \in aclNets : v.Type = "bridge" /\ v.DeviceName = ""},
     aclOVNNets |-> {v \in aclNets : v.Type = "ovn"},
     aclBridgeNICs |-> {v \in aclNets : v.Type = "bridge" /\ v.DeviceName # ""}]

\* The guard of the database update and of the hook that restores the row.
WritesRow(clientType) == clientType = ClientTypeNormal

\* The guard of the OVN part that applies to every client type.
AppliesOVNAlways(aclOVNNets, clientType) == aclOVNNets # {}

\* The guard of the OVN part.
AppliesOVN(aclOVNNets, clientType) == aclOVNNets # {} /\ clientType = ClientTypeNormal

\* The guard of the notification that applies to every client type.
NotifiesAlways(aclNets, clientType) == aclNets # {}

\* The guard of the notification of the other members.
Notifies(aclNets, clientType) == clientType = ClientTypeNormal /\ aclNets # {}

\* The row a hook leaves that does not write the old configuration back.
RestoredRowKept(row, oldConfig, ok) == row

\* The row after the hook that writes the old configuration back; its
\* transaction's error is dropped.
RestoredRow(row, oldConfig, ok) == IF ok THEN oldConfig ELSE row

\* The calls of the OVN part, in their order.
OVNCalls ==
    <<"OVN", "GetNetworkACLIDsByNames", "OVNEnsureACLs", "OVNEnsureAddressSetsViaACLs",
      "OVNPortGroupDeleteIfUnused">>

\* The hooks the OVN part has added to the reverter when its call k failed
\* (k beyond the last call: none failed).
OVNHooks(k) ==
    IF k <= 3 THEN << >>
    ELSE IF k = 4 THEN <<"OVNEnsureACLs cleanup">>
    ELSE <<"OVNEnsureACLs cleanup", "OVNEnsureAddressSetsViaACLs cleanup">>

IdleMember ==
    [pc |-> "idle", clientType |-> ClientTypeNormal, caller |-> NoMember,
     config |-> EmptyInfo, info |-> EmptyInfo, oldConfig |-> EmptyInfo,
     reverter |-> << >>, aclNets |-> {}, aclOVNNets |-> {}, aclBridgeNICs |-> {},
     validated |-> FALSE, result |-> AvPending, pre |-> [row |-> EmptyInfo, info |-> EmptyInfo]]

\* An Update begins: the ACL is loaded from its row, then Update is called.
Called(config, clientType, caller, row) ==
    [IdleMember EXCEPT !.pc = "validate", !.clientType = clientType, !.caller = caller,
                       !.config = config, !.info = row,
                       !.pre = [row |-> row, info |-> row]]

AclUpdateIdle ==
    /\ auUsage = {}
    /\ auMember = [m \in Members |-> IdleMember]
    /\ auRow = EmptyInfo
    /\ auMsgs = {}
    /\ auReplies = {}
    /\ auLog = {}
    /\ auUpdates = [m \in Members |-> 0]

AclUpdateStart ==
    /\ auUsage \in SUBSET Usages
    /\ \E config \in UpdateInfos, clientType \in {ClientTypeNormal, ClientTypeNotifier} :
           auMember = [m \in Members |->
                          IF m = 1 THEN Called(config, clientType, NoMember, OldInfo)
                          ELSE IdleMember]
    /\ auRow = OldInfo
    /\ auMsgs = {}
    /\ auReplies = {}
    /\ auLog = {}
    /\ auUpdates = [m \in Members |-> IF m = 1 THEN 1 ELSE 0]

AuEvent(m, op) == [member |-> m, clientType |-> auMember[m].clientType, op |-> op]

\* The call of member m goes on: fields of its record change, calls are logged.
AuStep(m, next, ops) ==
    /\ auMember' = [auMember EXCEPT ![m] = next]
    /\ auLog' = auLog \cup {AuEvent(m, op) : op \in ops}

\* The call returns the error: the deferred reverter.Fail runs next.
AuFailed(m, err, ops) ==
    AuStep(m, [auMember[m] EXCEPT !.pc = "fail", !.result = err], ops)

\* validateConfig(config); an error returns before the reverter exists.
AuValidate(m) ==
    /\ auMember[m].pc = "validate"
    /\ \E dbFails \in BOOLEAN :
         \E outcome \in {validateConfig(auMember[m].config, dbFails)} :
           AuStep(m, [auMember[m] EXCEPT
                         !.config = outcome.info,
                         !.validated = outcome.err = NoError,
                         !.result = IF outcome.err = NoError THEN AvPending
                                    ELSE outcome.err,
                         !.pc = IF outcome.err # NoError THEN "return"
                                ELSE "UpdateNetworkACL"], {})
    /\ UNCHANGED <<auUsage, auRow, auMsgs, auReplies, auUpdates>>
    /\ UNCHANGED <<firstVars, snapVars, rebuildVars, aclValidateVars, newerVars>>

\* The database update, the new info and the hook that restores both.
AuUpdateNetworkACL(m) ==
    /\ auMember[m].pc = "UpdateNetworkACL"
    /\ IF ~WritesRow(auMember[m].clientType)
           THEN /\ AuStep(m, [auMember[m] EXCEPT !.pc = "NetworkUsage"], {})
                /\ UNCHANGED auRow
           ELSE \/ /\ AuStep(m, [auMember[m] EXCEPT !.pc = "return",
                                                    !.result = "UpdateNetworkACL"],
                             {})
                   /\ UNCHANGED auRow
                \/ /\ auRow' = auMember[m].config
                   /\ AuStep(m, [auMember[m] EXCEPT
                                    !.pc = "NetworkUsage",
                                    !.oldConfig = auMember[m].info,
                                    !.info = NormaliseInfo(auMember[m].config),
                                    !.reverter = <<"restore">>],
                             {"UpdateNetworkACL"})
    /\ UNCHANGED <<auUsage, auMsgs, auReplies, auUpdates>>
    /\ UNCHANGED <<firstVars, snapVars, rebuildVars, aclValidateVars, newerVars>>

\* NetworkUsage and the loop that separates the networks by their type.
AuNetworkUsage(m) ==
    /\ auMember[m].pc = "NetworkUsage"
    /\ \/ AuFailed(m, "Failed getting ACL network usage", {})
       \/ IF Partition(auUsage).unsupported
              THEN AuFailed(m, "Unsupported network ACL type", {})
              ELSE AuStep(m, [auMember[m] EXCEPT
                                 !.pc = "FirewallApplyACLRules",
                                 !.aclNets = Partition(auUsage).aclNets,
                                 !.aclOVNNets = Partition(auUsage).aclOVNNets,
                                 !.aclBridgeNICs = Partition(auUsage).aclBridgeNICs], {})
    /\ UNCHANGED <<auUsage, auRow, auMsgs, auReplies, auUpdates>>
    /\ UNCHANGED <<firstVars, snapVars, rebuildVars, aclValidateVars, newerVars>>

\* The loop over the bridge networks that applies the rules on this member.
AuFirewallApplyACLRules(m) ==
    /\ auMember[m].pc = "FirewallApplyACLRules"
    /\ IF auMember[m].aclNets = {}
           THEN AuStep(m, [auMember[m] EXCEPT !.pc = "BridgeUpdateACLs"], {})
           ELSE \/ AuFailed(m, "FirewallApplyAddressSetsForACLRules", {})
                \/ AuFailed(m, "FirewallApplyACLRules",
                            {"FirewallApplyAddressSetsForACLRules"})
                \/ AuStep(m, [auMember[m] EXCEPT !.pc = "BridgeUpdateACLs"],
                          {"FirewallApplyAddressSetsForACLRules", "FirewallApplyACLRules"})
    /\ UNCHANGED <<auUsage, auRow, auMsgs, auReplies, auUpdates>>
    /\ UNCHANGED <<firstVars, snapVars, rebuildVars, aclValidateVars, newerVars>>

\* The bridge interface filter of the NICs that use the ACL.
AuBridgeUpdateACLs(m) ==
    /\ auMember[m].pc = "BridgeUpdateACLs"
    /\ IF auMember[m].aclBridgeNICs = {}
           THEN AuStep(m, [auMember[m] EXCEPT !.pc = "OVN"], {})
           ELSE \/ AuFailed(m, "FirewallApplyAddressSetsForACLRules", {})
                \/ AuFailed(m, "Failed updating bridge NIC ACL",
                            {"FirewallApplyAddressSetsForACLRules"})
                \/ AuStep(m, [auMember[m] EXCEPT !.pc = "OVN"],
                          {"FirewallApplyAddressSetsForACLRules", "BridgeUpdateACLs"})
    /\ UNCHANGED <<auUsage, auRow, auMsgs, auReplies, auUpdates>>
    /\ UNCHANGED <<firstVars, snapVars, rebuildVars, aclValidateVars, newerVars>>

\* The OVN part: its calls in their order, up to the first that fails.
AuOVN(m) ==
    /\ auMember[m].pc = "OVN"
    /\ IF ~AppliesOVN(auMember[m].aclOVNNets, auMember[m].clientType)
           THEN AuStep(m, [auMember[m] EXCEPT !.pc = "notify"], {})
           ELSE \E k \in 1..(Len(OVNCalls) + 1) :
                  AuStep(m, [auMember[m] EXCEPT
                                !.pc = IF k <= Len(OVNCalls) THEN "fail" ELSE "notify",
                                !.result = IF k <= Len(OVNCalls) THEN OVNCalls[k]
                                           ELSE AvPending,
                                !.reverter = @ \o OVNHooks(k)],
                         {OVNCalls[i] : i \in 1..(k - 1)})
    /\ UNCHANGED <<auUsage, auRow, auMsgs, auReplies, auUpdates>>
    /\ UNCHANGED <<firstVars, snapVars, rebuildVars, aclValidateVars, newerVars>>

\* The notifier: every other member is asked to update the ACL.
AuNotify(m) ==
    /\ auMember[m].pc = "notify"
    /\ IF ~Notifies(auMember[m].aclNets, auMember[m].clientType)
           THEN /\ AuStep(m, [auMember[m] EXCEPT !.pc = "return", !.result = NoError,
                                                 !.reverter = << >>], {})
                /\ UNCHANGED auMsgs
           ELSE \/ /\ AuFailed(m, "NewNotifier", {})
                   /\ UNCHANGED auMsgs
                \/ /\ AuStep(m, [auMember[m] EXCEPT !.pc = "notifying"], {"notify"})
                   /\ auMsgs' = auMsgs \cup
                          {[to |-> o, from |-> m, config |-> auMember[m].info] :
                              o \in Members \ {m}}
    /\ UNCHANGED <<auUsage, auRow, auReplies, auUpdates>>
    /\ UNCHANGED <<firstVars, snapVars, rebuildVars, aclValidateVars, newerVars>>

\* A member receives the request of a notifier and calls Update.
AuReceive(m) ==
    /\ auMember[m].pc \in {"idle", "returned"}
    /\ auUpdates[m] < MaxUpdates
    /\ \E msg \in auMsgs :
        /\ msg.to = m
        /\ auMsgs' = auMsgs \ {msg}
        /\ auMember' = [auMember EXCEPT
                           ![m] = Called(msg.config, ClientTypeNotifier, msg.from, auRow)]
    /\ auUpdates' = [auUpdates EXCEPT ![m] = @ + 1]
    /\ UNCHANGED <<auUsage, auRow, auReplies, auLog>>
    /\ UNCHANGED <<firstVars, snapVars, rebuildVars, aclValidateVars, newerVars>>

\* The notifier returns when every other member has answered.
AuNotified(m) ==
    /\ auMember[m].pc = "notifying"
    /\ \A o \in Members \ {m} : \E r \in auReplies : r.to = m /\ r.from = o
    /\ auReplies' = {r \in auReplies : r.to # m}
    /\ IF \E r \in auReplies : r.to = m /\ r.err # NoError
           THEN AuFailed(m, "notifier", {})
           ELSE AuStep(m, [auMember[m] EXCEPT !.pc = "return", !.result = NoError,
                                              !.reverter = << >>], {})
    /\ UNCHANGED <<auUsage, auRow, auMsgs, auUpdates>>
    /\ UNCHANGED <<firstVars, snapVars, rebuildVars, aclValidateVars, newerVars>>

\* reverter.Fail: the hooks run last in, first out; the hook added first
\* writes the old configuration back and restores the info.
AuRevert(m) ==
    /\ auMember[m].pc = "fail"
    /\ IF \A i \in 1..Len(auMember[m].reverter) : auMember[m].reverter[i] # "restore"
           THEN /\ AuStep(m, [auMember[m] EXCEPT !.pc = "return", !.reverter = << >>],
                          {auMember[m].reverter[i] : i \in 1..Len(auMember[m].reverter)})
                /\ UNCHANGED auRow
           ELSE \E ok \in BOOLEAN :
                  /\ auRow' = RestoredRow(auRow, auMember[m].oldConfig, ok)
                  /\ AuStep(m, [auMember[m] EXCEPT !.pc = "return", !.reverter = << >>,
                                                   !.info = auMember[m].oldConfig],
                            {auMember[m].reverter[i] : i \in 2..Len(auMember[m].reverter)}
                                \cup (IF ok THEN {"restore"} ELSE {"restore failed"}))
    /\ UNCHANGED <<auUsage, auMsgs, auReplies, auUpdates>>
    /\ UNCHANGED <<firstVars, snapVars, rebuildVars, aclValidateVars, newerVars>>

\* Update returns; a member called by a notifier answers it.
AuReturn(m) ==
    /\ auMember[m].pc = "return"
    /\ auMember' = [auMember EXCEPT ![m].pc = "returned"]
    /\ auReplies' = IF auMember[m].caller = NoMember THEN auReplies
                    ELSE auReplies \cup {[to |-> auMember[m].caller, from |-> m,
                                          err |-> auMember[m].result]}
    /\ UNCHANGED <<auUsage, auRow, auMsgs, auLog, auUpdates>>
    /\ UNCHANGED <<firstVars, snapVars, rebuildVars, aclValidateVars, newerVars>>

NextAclUpdate ==
    \E m \in Members :
        \/ AuValidate(m)
        \/ AuUpdateNetworkACL(m)
        \/ AuNetworkUsage(m)
        \/ AuFirewallApplyACLRules(m)
        \/ AuBridgeUpdateACLs(m)
        \/ AuOVN(m)
        \/ AuNotify(m)
        \/ AuReceive(m)
        \/ AuNotified(m)
        \/ AuRevert(m)
        \/ AuReturn(m)

\* ---- what the claims speak of ----

\* The member's Update is returning.
Returning(m) == auMember[m].pc = "return"

\* The calls that write the row, change OVN, or ask other members.
WritingOps ==
    {"UpdateNetworkACL", "restore", "restore failed", "notify",
     "OVNEnsureACLs cleanup", "OVNEnsureAddressSetsViaACLs cleanup"}
        \cup {OVNCalls[i] : i \in 1..Len(OVNCalls)}

C18_WitnessValidation ==
    /\ Returning(1)
    /\ auMember[1].result = "Duplicate of ingress rule 0"
    /\ auLog = {}

\* C19: an Update with a client type other than normal writes no row, makes
\* no OVN call and asks no member; no member runs more than one Update.
C19_ReplayStaysLocal ==
    /\ \A e \in auLog : e.clientType # ClientTypeNormal => e.op \notin WritingOps
    /\ \A msg \in auMsgs : auMember[msg.from].clientType = ClientTypeNormal
    /\ \A m \in Members : auUpdates[m] <= 1

\* A member asked by the notifier has applied the rules of an ACL that OVN
\* networks use as well, and has returned.
C19_Witness ==
    /\ auMember[2].pc = "returned"
    /\ auMember[2].clientType = ClientTypeNotifier
    /\ auMember[2].result = NoError
    /\ auMember[2].aclOVNNets # {}
    /\ [member |-> 2, clientType |-> ClientTypeNotifier, op |-> "FirewallApplyACLRules"]
           \in auLog
    /\ auMember[1].pc = "returned"
    /\ auMember[1].result = NoError

\* C20: when a user's Update of an ACL that is in use has returned without
\* error, every other member has been asked to update the ACL.
C20_EveryMemberNotified ==
    \A m \in Members :
        (/\ auMember[m].pc \in {"return", "returned"}
         /\ auMember[m].clientType = ClientTypeNormal
         /\ auMember[m].result = NoError
         /\ auUsage # {})
            => \A o \in Members \ {m} : auUpdates[o] >= 1

(***************************************************************************)
(* Network ACL Rename and Delete, usedBy and isUsed                        *)
(*                                                                         *)
(* The database holds the name of each ACL of the project under its id;    *)
(* no two ACLs of a project have the same name, and a transaction that     *)
(* returns an error has written nothing.                                   *)
(***************************************************************************)

\* The id of the ACL of the call, and that of another ACL of the project.
AclId == "id1"

OtherAclId == "id2"

\* What UsedBy passes to the callback of usedBy: an instance, a network, a
\* profile, another ACL, or a value of a type the callback does not know.
UsageTypes == {"InstanceArgs", "Network", "Profile", "NetworkACL"}

UnknownUsageType == "unknown"

\* The names a call may pass, and those ValidName accepts.
AclNameTexts == {"acl1", "acl2", "acl3", "bad/name", ""}

ValidName(name) == name \in {"acl1", "acl2", "acl3"}

\* The callback of usedBy for one usage: the error, and whether a URI is
\* appended.
UsedByCallback(usageType, firstOnly) ==
    IF usageType \notin UsageTypes
        THEN [err |-> "Unrecognised usage type", appended |-> FALSE]
    ELSE IF firstOnly THEN [err |-> "ErrInstanceListStop", appended |-> TRUE]
    ELSE [err |-> NoError, appended |-> TRUE]

\* usedBy(true), from the usage UsedBy visits first (none: no usage): the
\* number of URIs in the list, and the error.
usedByFirstOnly(visited, dbFails) ==
    IF dbFails THEN [len |-> 0, err |-> "Failed getting ACL usage: database error"]
    ELSE IF visited = {} THEN [len |-> 0, err |-> NoError]
    ELSE LET first == UsedByCallback(CHOOSE u \in visited : TRUE, TRUE)
         IN  IF first.err = "ErrInstanceListStop" THEN [len |-> 1, err |-> NoError]
             ELSE [len |-> 0, err |-> "Failed getting ACL usage: " \o first.err]

\* isUsed, from what usedBy(true) returned.
isUsed(usedBy) ==
    IF usedBy.err # NoError THEN [used |-> FALSE, err |-> usedBy.err]
    ELSE [used |-> usedBy.len > 0, err |-> NoError]

\* What LoadByName(newName) returns: nil when the database answers and holds
\* an ACL of that name, an error otherwise.
LoadByName(rows, name, dbFails) ==
    IF dbFails THEN "database error"
    ELSE IF \E id \in DOMAIN rows : rows[id] = name THEN NoError
    ELSE "Network ACL not found"

\* tx.RenameNetworkACL in its transaction: the rows after it, and its error.
RenameNetworkACL(rows, id, newName, dbFails) ==
    IF dbFails \/ id \notin DOMAIN rows \/ \E o \in DOMAIN rows : o # id /\ rows[o] = newName
        THEN [rows |-> rows, err |-> "RenameNetworkACL"]
        ELSE [rows |-> [rows EXCEPT ![id] = newName], err |-> NoError]

\* tx.DeleteNetworkACL in its transaction.
DeleteNetworkACL(rows, id, dbFails) ==
    IF dbFails \/ id \notin DOMAIN rows
        THEN [rows |-> rows, err |-> "DeleteNetworkACL"]
        ELSE [rows |-> [o \in DOMAIN rows \ {id} |-> rows[o]], err |-> NoError]

RenameIdle ==
    /\ rnCall = [op |-> "none", newName |-> ""]
    /\ rnPc = "idle"
    /\ rnRows = << >>
    /\ rnName = ""
    /\ rnUsage = {}
    /\ rnResult = AvPending

\* Rows whose names are unique, the ACL loaded from its row, and a call.
RenameStart ==
    /\ \/ \E newName \in AclNameTexts :
            /\ rnCall = [op |-> "Rename", newName |-> newName]
            /\ rnPc = "LoadByName"
       \/ /\ rnCall = [op |-> "Delete", newName |-> ""]
          /\ rnPc = "isUsed"
    /\ rnRows \in {[id \in {AclId} |-> "acl1"],
                   [id \in {AclId, OtherAclId} |-> IF id = AclId THEN "acl1" ELSE "acl2"]}
    /\ rnName = "acl1"
    /\ rnUsage \in SUBSET (UsageTypes \cup {UnknownUsageType})
    /\ rnResult = AvPending

\* The call returns the error.
RnReturn(err) ==
    /\ rnPc' = "returned"
    /\ rnResult' = err

\* Rename: an ACL of the new name must not exist.
RnLoadByName ==
    /\ rnPc = "LoadByName"
    /\ \E dbFails \in BOOLEAN :
         IF LoadByName(rnRows, rnCall.newName, dbFails) = NoError
             THEN RnReturn("An ACL by that name exists already")
             ELSE rnPc' = "isUsed" /\ UNCHANGED rnResult
    /\ UNCHANGED <<rnCall, rnRows, rnName, rnUsage>>
    /\ UNCHANGED <<firstVars, snapVars, rebuildVars, aclVars, renameRest>>

\* Rename and Delete: the ACL must not be in use.
RnIsUsed ==
    /\ rnPc = "isUsed"
    /\ \E dbFails \in BOOLEAN, visited \in {{u} : u \in rnUsage} \cup {{}} :
         /\ visited = {} => rnUsage = {}
         /\ \E outcome \in {isUsed(usedByFirstOnly(visited, dbFails))} :
              IF outcome.err # NoError THEN RnReturn(outcome.err)
              ELSE IF outcome.used
                  THEN RnReturn(IF rnCall.op = "Rename"
                                    THEN "Cannot rename an ACL that is in use"
                                    ELSE "Cannot delete an ACL that is in use")
              ELSE /\ rnPc' = IF rnCall.op = "Rename" THEN "validateName"
                              ELSE "DeleteNetworkACL"
                   /\ UNCHANGED rnResult
    /\ UNCHANGED <<rnCall, rnRows, rnName, rnUsage>>
    /\ UNCHANGED <<firstVars, snapVars, rebuildVars, aclVars, renameRest>>

\* Rename: the new name must be valid.
RnValidateName ==
    /\ rnPc = "validateName"
    /\ IF ValidName(rnCall.newName)
           THEN rnPc' = "RenameNetworkACL" /\ UNCHANGED rnResult
           ELSE RnReturn("Invalid name")
    /\ UNCHANGED <<rnCall, rnRows, rnName, rnUsage>>
    /\ UNCHANGED <<firstVars, snapVars, rebuildVars, aclVars, renameRest>>

\* Rename: the row is renamed, then the name in memory.
RnRenameNetworkACL ==
    /\ rnPc = "RenameNetworkACL"
    /\ \E dbFails \in BOOLEAN :
         \E outcome \in {RenameNetworkACL(rnRows, AclId, rnCall.newName, dbFails)} :
           /\ rnRows' = outcome.rows
           /\ rnName' = IF outcome.err = NoError THEN rnCall.newName ELSE rnName
           /\ RnReturn(outcome.err)
    /\ UNCHANGED <<rnCall, rnUsage>>
    /\ UNCHANGED <<firstVars, snapVars, rebuildVars, aclVars, renameRest>>

\* Delete: the row is deleted.
RnDeleteNetworkACL ==
    /\ rnPc = "DeleteNetworkACL"
    /\ \E dbFails \in BOOLEAN :
         \E outcome \in {DeleteNetworkACL(rnRows, AclId, dbFails)} :
           /\ rnRows' = outcome.rows
           /\ RnReturn(outcome.err)
    /\ UNCHANGED <<rnCall, rnName, rnUsage>>
    /\ UNCHANGED <<firstVars, snapVars, rebuildVars, aclVars, renameRest>>

NextRename ==
    \/ RnLoadByName
    \/ RnIsUsed
    \/ RnValidateName
    \/ RnRenameNetworkACL
    \/ RnDeleteNetworkACL

\* ---- what the claim speaks of ----

\* The rows and the name in memory are those of before the call.
RnUnchanged == AclId \in DOMAIN rnRows /\ rnRows[AclId] = "acl1" /\ rnName = "acl1"

\* C21: Rename and Delete of an ACL that a network, a profile, an instance
\* or another ACL refers to fail and change neither the row nor the name in
\* memory; so does a Rename to a name that another ACL has or that is not
\* valid; after a Rename that succeeded the name in memory is that of the row.
C21_RenameDeleteGuarded ==
    rnPc = "returned" =>
        /\ (rnUsage \cap UsageTypes # {}) => (rnResult # NoError /\ RnUnchanged)
        /\ (/\ rnCall.op = "Rename"
            /\ \/ rnCall.newName \in {"acl1"} \cup {"acl2" : id \in DOMAIN rnRows \ {AclId}}
               \/ ~ValidName(rnCall.newName))
           => (rnResult # NoError /\ RnUnchanged)
        /\ (rnCall.op = "Rename" /\ rnResult = NoError)
           => (AclId \in DOMAIN rnRows /\ rnName = rnRows[AclId]
               /\ rnName = rnCall.newName)

(***************************************************************************)
(* Network ACL GetLog                                                      *)
(*                                                                         *)
(* The notifier runs the callback once for every other member, each in a   *)
(* goroutine of its own, and returns when all of them have returned; the   *)
(* other member answers with what its own GetLog returns to a notifier.    *)
(* Appending to the slice reads the slice and then writes it.              *)
(***************************************************************************)

MaxPeers == 2

MaxLogLines == 3

\* The other members of the cluster.
Peers == 1..MaxPeers

\* The log entries of the ACL, and a line of the log of another ACL.
LogEntryTexts == {<<"a">>, <<"b">>}

LogLines ==
    {[acl |-> AclId, entry |-> e] : e \in LogEntryTexts}
        \cup {[acl |-> OtherAclId, entry |-> <<"a">>]}

\* ovnParseLogEntry(line, prefix): the entry of a line of this ACL, else "".
ovnParseLogEntry(line, id) == IF line.acl = id THEN line.entry ELSE EmptyString

\* The order of two characters, and of two strings, as Go compares them.
ByteOf(c) == CASE c = "\n" -> 10 [] c = "a" -> 97 [] c = "b" -> 98 [] OTHER -> 255

RECURSIVE StringLess(_, _)
StringLess(s, t) ==
    IF t = << >> THEN FALSE
    ELSE IF s = << >> THEN TRUE
    ELSE IF Head(s) # Head(t) THEN ByteOf(Head(s)) < ByteOf(Head(t))
    ELSE StringLess(Tail(s), Tail(t))

RECURSIVE InsertString(_, _)
InsertString(sorted, s) ==
    IF sorted = << >> THEN <<s>>
    ELSE IF StringLess(s, Head(sorted)) THEN <<s>> \o sorted
    ELSE <<Head(sorted)>> \o InsertString(Tail(sorted), s)

RECURSIVE SortStrings(_)
\* sort.Strings(list)
SortStrings(list) ==
    IF list = << >> THEN << >>
    ELSE InsertString(SortStrings(Tail(list)), Head(list))

\* The lines a bufio.Scanner finds in a text.
ScanLines(text) ==
    IF text = << >> THEN << >>
    ELSE LET parts == Split(text, "\n")
         IN  IF parts[Len(parts)] = << >> THEN SubSeq(parts, 1, Len(parts) - 1)
             ELSE parts

RECURSIVE ScanLog(_, _)
\* The first loop of GetLog: the entries of the lines of the log file.
ScanLog(lines, id) ==
    IF lines = << >> THEN << >>
    ELSE LET logEntry == ovnParseLogEntry(Head(lines), id)
         IN  (IF logEntry = EmptyString THEN << >> ELSE <<logEntry>>)
                 \o ScanLog(Tail(lines), id)

\* A GetLog that returns the entries in the order of the slice.
LogTextUnsorted(logEntries) ==
    IF Len(logEntries) = 0 THEN EmptyString
    ELSE Join(logEntries, "\n") \o <<"\n">>

\* The end of GetLog: the text returned for the slice.
LogText(logEntries) ==
    IF Len(logEntries) = 0 THEN EmptyString
    ELSE Join(SortStrings(logEntries), "\n") \o <<"\n">>

\* A mutex that is never held.
CanLockAlways(mu) == TRUE

\* mu.Lock() returns when no goroutine holds the mutex.
CanLock(mu) == mu = NoMember

\* What client.GetNetworkACLLogfile returns: the GetLog of the other member
\* for a notifier.
GetNetworkACLLogfile(lines, id) == LogText(ScanLog(lines, id))

RECURSIVE LogFiles(_, _)
\* The log files of the members, with at most n lines in all.
LogFiles(members, n) ==
    IF members = {} THEN {<< >>}
    ELSE LET m == CHOOSE x \in members : TRUE
         IN  UNION {{[o \in members |-> IF o = m THEN lines ELSE rest[o]] :
                        rest \in LogFiles(members \ {m}, n - Len(lines))} :
                    lines \in SeqsUpTo(LogLines, n)}

IdlePeer == [pc |-> "idle", text |-> << >>, lines |-> << >>, seen |-> << >>, err |-> NoError]

GetLogIdle ==
    /\ glInput = [clientType |-> "none", logs |-> << >>]
    /\ glPc = "idle"
    /\ glEntries = << >>
    /\ glMu = NoMember
    /\ glPeer = << >>
    /\ glContacted = {}
    /\ glResult = [text |-> << >>, err |-> AvPending]

\* A call of either client type, and the log file of every member.
GetLogStart ==
    /\ \E clientType \in {ClientTypeNormal, ClientTypeNotifier} :
       \E logs \in LogFiles({NoMember} \cup Peers, MaxLogLines) :
         glInput = [clientType |-> clientType, logs |-> logs]
    /\ glPc = "scan"
    /\ glEntries = << >>
    /\ glMu = NoMember
    /\ glPeer = [p \in Peers |-> IdlePeer]
    /\ glContacted = {}
    /\ glResult = [text |-> << >>, err |-> AvPending]

GlReturn(text, err) ==
    /\ glPc' = "returned"
    /\ glResult' = [text |-> text, err |-> err]

\* The log file is opened and read.
GlScan ==
    /\ glPc = "scan"
    /\ \E fails \in {"none", "PathExists", "Open", "Scan"} :
         CASE fails = "PathExists" ->
                /\ GlReturn(EmptyString, "Only OVN log entries may be retrieved at this time")
                /\ UNCHANGED glEntries
           [] fails = "Open" ->
                /\ GlReturn(EmptyString, "Couldn't open OVN log file")
                /\ UNCHANGED glEntries
           [] fails = "Scan" ->
                /\ GlReturn(EmptyString, "Failed to read OVN log file")
                /\ UNCHANGED glEntries
           [] OTHER ->
                /\ glEntries' = ScanLog(glInput.logs[NoMember], AclId)
                /\ glPc' = IF glInput.clientType = ClientTypeNormal
                               THEN "NewNotifier" ELSE "finish"
                /\ UNCHANGED glResult
    /\ UNCHANGED <<glInput, glMu, glPeer, glContacted>>
    /\ UNCHANGED <<firstVars, snapVars, rebuildVars, aclVars, getlogRest>>

\* cluster.NewNotifier, and the start of the callbacks.
GlNewNotifier ==
    /\ glPc = "NewNotifier"
    /\ \E fails \in BOOLEAN :
         IF fails
             THEN GlReturn(EmptyString, "NewNotifier") /\ UNCHANGED glPeer
             ELSE /\ glPc' = "notifier"
                  /\ glPeer' = [p \in Peers |-> [IdlePeer EXCEPT !.pc = "fetch"]]
                  /\ UNCHANGED glResult
    /\ UNCHANGED <<glInput, glEntries, glMu, glContacted>>
    /\ UNCHANGED <<firstVars, snapVars, rebuildVars, aclVars, getlogRest>>

\* The callback for peer p asks the member for its entries.
GlFetch(p) ==
    /\ glPeer[p].pc = "fetch"
    /\ glContacted' = glContacted \cup {p}
    /\ \E fails \in BOOLEAN :
         glPeer' = [glPeer EXCEPT ![p] =
            IF fails THEN [@ EXCEPT !.pc = "done", !.err = "GetNetworkACLLogfile"]
            ELSE [@ EXCEPT !.pc = "lock",
                           !.text = GetNetworkACLLogfile(glInput.logs[p], AclId)]]
    /\ UNCHANGED <<glInput, glPc, glEntries, glMu, glResult>>
    /\ UNCHANGED <<firstVars, snapVars, rebuildVars, aclVars, getlogRest>>

\* mu.Lock(), and the scanner over the answer.
GlLock(p) ==
    /\ glPeer[p].pc = "lock"
    /\ CanLock(glMu)
    /\ glMu' = p
    /\ glPeer' = [glPeer EXCEPT ![p] = [@ EXCEPT !.pc = "scan",
                                                 !.lines = ScanLines(glPeer[p].text)]]
    /\ UNCHANGED <<glInput, glPc, glEntries, glContacted, glResult>>
    /\ UNCHANGED <<firstVars, snapVars, rebuildVars, aclVars, getlogRest>>

\* The next line: skipped when empty, else the slice is read for the append.
GlRead(p) ==
    /\ glPeer[p].pc = "scan"
    /\ glPeer[p].lines # << >>
    /\ glPeer' = [glPeer EXCEPT ![p] =
            IF Head(@.lines) = EmptyString THEN [@ EXCEPT !.lines = Tail(@)]
            ELSE [@ EXCEPT !.pc = "append", !.seen = glEntries]]
    /\ UNCHANGED <<glInput, glPc, glEntries, glMu, glContacted, glResult>>
    /\ UNCHANGED <<firstVars, snapVars, rebuildVars, aclVars, getlogRest>>

\* logEntries = append(logEntries, entry)
GlAppend(p) ==
    /\ glPeer[p].pc = "append"
    /\ glEntries' = Append(glPeer[p].seen, Head(glPeer[p].lines))
    /\ glPeer' = [glPeer EXCEPT ![p] = [@ EXCEPT !.pc = "scan", !.lines = Tail(@)]]
    /\ UNCHANGED <<glInput, glPc, glMu, glContacted, glResult>>
    /\ UNCHANGED <<firstVars, snapVars, rebuildVars, aclVars, getlogRest>>

\* The scanner is at its end: its error, and the deferred mu.Unlock().
GlUnlock(p) ==
    /\ glPeer[p].pc = "scan"
    /\ glPeer[p].lines = << >>
    /\ glMu' = NoMember
    /\ \E fails \in BOOLEAN :
         glPeer' = [glPeer EXCEPT ![p] =
            [@ EXCEPT !.pc = "done",
                      !.err = IF fails THEN "Failed to read OVN log file" ELSE NoError]]
    /\ UNCHANGED <<glInput, glPc, glEntries, glContacted, glResult>>
    /\ UNCHANGED <<firstVars, snapVars, rebuildVars, aclVars, getlogRest>>

\* The notifier returns: the error of a callback, if one failed.
GlNotified ==
    /\ glPc = "notifier"
    /\ \A p \in Peers : glPeer[p].pc = "done"
    /\ IF \E p \in Peers : glPeer[p].err # NoError
           THEN \E p \in Peers :
                  /\ glPeer[p].err # NoError
                  /\ GlReturn(EmptyString, glPeer[p].err)
           ELSE glPc' = "finish" /\ UNCHANGED glResult
    /\ UNCHANGED <<glInput, glEntries, glMu, glPeer, glContacted>>
    /\ UNCHANGED <<firstVars, snapVars, rebuildVars, aclVars, getlogRest>>

\* The entries are sorted and joined.
GlFinish ==
    /\ glPc = "finish"
    /\ GlReturn(LogText(glEntries), NoError)
    /\ UNCHANGED <<glInput, glEntries, glMu, glPeer, glContacted>>
    /\ UNCHANGED <<firstVars, snapVars, rebuildVars, aclVars, getlogRest>>

NextGetLog ==
    \/ GlScan
    \/ GlNewNotifier
    \/ \E p \in Peers :
         \/ GlFetch(p)
         \/ GlLock(p)
         \/ GlRead(p)
         \/ GlAppend(p)
         \/ GlUnlock(p)
    \/ GlNotified
    \/ GlFinish

\* ---- what the claim speaks of ----

\* How often an entry is in a list.
CountIn(list, e) == Cardinality({i \in DOMAIN list : list[i] = e})

\* How often an entry of the ACL is in the logs of the members.
CountInLogs(members, e) ==
    LET Lines(m) == {i \in DOMAIN glInput.logs[m] :
                        glInput.logs[m][i] = [acl |-> AclId, entry |-> e]}
        RECURSIVE Sum(_)
        Sum(ms) == IF ms = {} THEN 0
                   ELSE LET m == CHOOSE x \in ms : TRUE
                        IN  Cardinality(Lines(m)) + Sum(ms \ {m})
    IN  Sum(members)

\* The text is lines in lexicographic order, each ended by a line break.
SortedLines(text) ==
    LET lines == ScanLines(text)
    IN  /\ text # << >> => text[Len(text)] = "\n"
        /\ \A i \in DOMAIN lines : lines[i] # << >>
        /\ \A i \in 1..(Len(lines) - 1) : ~StringLess(lines[i + 1], lines[i])

\* The members whose entries the call is to return.
GlMembers == IF glInput.clientType = ClientTypeNormal THEN {NoMember} \cup Peers
             ELSE {NoMember}

\* C22: a GetLog that returns without error returns, for a normal client, the
\* entries of this member and of every other member, and for a notifier
\* those of this member alone, each exactly once, in lexicographic order and
\* each ended by a line break, the empty string when there is none; a
\* notifier's call contacts no member.
C22_LogComplete ==
    /\ (glPc = "returned" /\ glResult.err = NoError) =>
        /\ \A e \in LogEntryTexts :
              CountIn(ScanLines(glResult.text), e) = CountInLogs(GlMembers, e)
        /\ \A i \in DOMAIN ScanLines(glResult.text) :
              ScanLines(glResult.text)[i] \in LogEntryTexts
        /\ SortedLines(glResult.text)
        /\ (\A e \in LogEntryTexts : CountInLogs(GlMembers, e) = 0)
              => glResult.text = EmptyString
    /\ glInput.clientType = ClientTypeNotifier => glContacted = {}
    /\ Cardinality({p \in Peers : glPeer[p].pc \in {"scan", "append"}}) <= 1

\* A normal client has the entries of both other members, appended in the
\* order opposite to the sorted one, and its own.
C22_Witness ==
    /\ glPc = "returned"
    /\ glResult.err = NoError
    /\ glInput.clientType = ClientTypeNormal
    /\ glEntries = <<<<"b">>, <<"b">>, <<"a">>>>
    /\ glResult.text = <<"a", "\n", "b", "\n", "b", "\n">>

\* A notifier whose member has entries, while the others have some too.
C22_WitnessNotifier ==
    /\ glPc = "returned"
    /\ glInput.clientType = ClientTypeNotifier
    /\ glResult.text = <<"a", "\n">>
    /\ \A p \in Peers : glInput.logs[p] # << >>

(***************************************************************************)
(* instancesPost, the creators and instanceCreateFinish                    *)
(*                                                                         *)
(* A request is handled by the member that receives it; a request that is  *)
(* forwarded is handled anew by the member it is sent to. The log holds,   *)
(* in order, what the handlers did.  cluster.Connect with notify true      *)
(* makes the request a cluster notification on the other side.             *)
(***************************************************************************)

ClusterMembers == {"node1", "node2"}

SourceTypes == {"image", "none", "migration", "copy"}

\* isClusterNotification(r) and isClusterInternal(r)
isClusterNotification(r) == r.notification

isClusterInternal(r) == r.protocol = "cluster"

\* The evacuated check at the head of a creator: whether it answers
\* Forbidden. The request of a createFromMigration called by
\* clusterCopyContainerInternal is nil.
CreatorForbidden(creator, cluster, member, r, rIsNil) ==
    CASE creator \in {"image", "none", "copy"} ->
            cluster.clustered /\ member \in cluster.evacuated
      [] creator = "migration" ->
            /\ cluster.clustered
            /\ ~rIsNil
            /\ r.protocol # "cluster"
            /\ member \in cluster.evacuated
      [] OTHER -> FALSE

\* A selection that takes the last candidate.
SelectMemberLast(candidateMembers, targetMemberInfo) ==
    IF targetMemberInfo # "" THEN targetMemberInfo
    ELSE IF Len(candidateMembers) > 0 THEN candidateMembers[Len(candidateMembers)]
    ELSE ""

\* The choice of a member without scriptlet: the candidates are the target
\* alone when there is one, and the first candidate is taken ("": nil).
SelectMember(candidateMembers, targetMemberInfo) ==
    LET candidates == IF targetMemberInfo # "" THEN <<targetMemberInfo>>
                      ELSE candidateMembers
    IN  IF targetMemberInfo # "" THEN targetMemberInfo
        ELSE IF Len(candidates) > 0 THEN candidates[1]
        ELSE ""

\* An instanceCreateFinish that starts every instance.
StartsAlways(req) == TRUE

\* instanceCreateFinish: whether the instance is started.
Starts(req) == req.start

\* What project.CheckTarget makes of the target: a member, a group, or none.
CheckTarget(target) ==
    IF target \in ClusterMembers THEN [member |-> target, group |-> ""]
    ELSE [member |-> "", group |-> target]

\* The lists tx.GetCandidateMembers may return, the least loaded first.
CandidateLists ==
    {<< >>} \cup {<<m>> : m \in ClusterMembers}
        \cup UNION {{<<m, o>> : o \in ClusterMembers \ {m}} : m \in ClusterMembers}

NoRequest ==
    [contentType |-> "", sourceType |-> "", refresh |-> FALSE, start |-> FALSE,
     target |-> "", notification |-> FALSE, protocol |-> ""]

IdleHandler ==
    [member |-> "", hop |-> 0, pc |-> "idle", req |-> NoRequest, target |-> "",
     group |-> "", candidates |-> << >>, placed |-> FALSE, creator |-> "",
     rIsNil |-> FALSE, response |-> ""]

PostIdle ==
    /\ ipCluster = [clustered |-> FALSE, evacuated |-> {}, scriptlet |-> FALSE,
                    location |-> ""]
    /\ ipHandler = IdleHandler
    /\ ipLog = << >>

\* The requests a member may receive: a raw backup, or a decoded request.
PostRequests ==
    {[NoRequest EXCEPT !.contentType = "application/octet-stream",
                       !.notification = n.notification, !.protocol = n.protocol] :
        n \in {[notification |-> FALSE, protocol |-> "tls"],
               [notification |-> TRUE, protocol |-> "cluster"]}}
    \cup
    {[contentType |-> "application/json", sourceType |-> s, refresh |-> f,
      start |-> st, target |-> t, notification |-> n.notification,
      protocol |-> n.protocol] :
        s \in SourceTypes \cup {"unknown"}, f \in BOOLEAN, st \in BOOLEAN,
        t \in ClusterMembers \cup {"", "group1"},
        n \in {[notification |-> FALSE, protocol |-> "tls"],
               [notification |-> FALSE, protocol |-> "cluster"],
               [notification |-> TRUE, protocol |-> "cluster"]}}

\* A member receives a request; the instance a refresh names, if it is on
\* a member, is on the member the database says.
PostStart ==
    /\ \E clustered \in BOOLEAN, evacuated \in SUBSET ClusterMembers,
          scriptlet \in BOOLEAN, location \in ClusterMembers \cup {""} :
         /\ ~clustered => (evacuated = {} /\ ~scriptlet)
         /\ ipCluster = [clustered |-> clustered, evacuated |-> evacuated,
                         scriptlet |-> scriptlet, location |-> location]
    /\ \E member \in ClusterMembers, req \in PostRequests :
         /\ (req.refresh => req.sourceType = "migration")
         /\ (~req.refresh => ipCluster.location = "")
         /\ (~ipCluster.clustered => (member = "node1" /\ req.protocol = "tls"))
         /\ ipHandler = [IdleHandler EXCEPT !.member = member, !.pc = "received",
                                            !.req = req]
    /\ ipLog = << >>

\* An entry of the log.
IpEvent(kind, what) ==
    [kind |-> kind, member |-> ipHandler.member, hop |-> ipHandler.hop, what |-> what,
     notification |-> ipHandler.req.notification, start |-> ipHandler.req.start]

\* The handler answers with an error.
IpReject(code) ==
    /\ ipHandler' = [ipHandler EXCEPT !.pc = "done", !.response = code]
    /\ ipLog' = Append(ipLog, IpEvent("reject", code))

\* The handler sends the request to a member and answers with that
\* member's operation; the member receives it as the flags say.
IpForward(to, notify) ==
    /\ ipLog' = Append(ipLog, IpEvent("forward", to))
    /\ ipHandler' = [IdleHandler EXCEPT
            !.member = to, !.hop = ipHandler.hop + 1, !.pc = "received",
            !.req = [ipHandler.req EXCEPT !.notification = notify,
                                          !.protocol = "cluster",
                                          !.target = to]]

\* The handler calls a creator.
IpDispatch(creator) ==
    /\ ipLog' = Append(ipLog, IpEvent("dispatch", creator))
    /\ ipHandler' = [ipHandler EXCEPT !.pc = "creator", !.creator = creator]

\* The head of instancesPost: a raw backup goes to createFromBackup, any
\* other request is decoded.
IpReceive ==
    /\ ipHandler.pc = "received"
    /\ IF ipHandler.req.contentType = "application/octet-stream"
           THEN IpDispatch("backup")
           ELSE \E fails \in BOOLEAN :
                  IF fails THEN IpReject("BadRequest")
                  ELSE /\ ipHandler' = [ipHandler EXCEPT !.pc = "refresh"]
                       /\ UNCHANGED ipLog
    /\ UNCHANGED ipCluster
    /\ UNCHANGED <<firstVars, snapVars, rebuildVars, aclVars, postRest>>

\* The short cut for the refresh of an instance.
IpRefresh ==
    /\ ipHandler.pc = "refresh"
    /\ LET r == ipHandler.req
       IN  IF /\ ipCluster.clustered
              /\ ~isClusterNotification(r)
              /\ r.sourceType = "migration"
              /\ r.refresh
               THEN \/ /\ ipCluster.location \notin {"", ipHandler.member}
                       /\ \E fails \in BOOLEAN, notify \in BOOLEAN :
                            IF fails THEN IpReject("SmartError")
                            ELSE IpForward(ipCluster.location, notify)
                    \/ /\ ipCluster.location = ipHandler.member
                       /\ IpDispatch("migration")
                    \/ /\ ipCluster.location = ""
                       /\ ipHandler' = [ipHandler EXCEPT !.pc = "transaction"]
                       /\ UNCHANGED ipLog
                    \/ IpReject("SmartError")
               ELSE /\ ipHandler' = [ipHandler EXCEPT !.pc = "transaction"]
                    /\ UNCHANGED ipLog
    /\ UNCHANGED ipCluster
    /\ UNCHANGED <<firstVars, snapVars, rebuildVars, aclVars, postRest>>

\* The transaction: the target is resolved and the candidates are listed.
IpTransaction ==
    /\ ipHandler.pc = "transaction"
    /\ LET r == ipHandler.req
           plans == ipCluster.clustered /\ ~isClusterNotification(r)
           resolved == IF plans THEN CheckTarget(r.target)
                       ELSE [member |-> "", group |-> ""]
       IN  IF ~ipCluster.clustered /\ r.target # ""
               THEN IpReject("BadRequest")
               ELSE \/ IpReject("SmartError")
                    \/ \E candidates \in CandidateLists :
                         /\ (plans /\ resolved.member = "") \/ candidates = << >>
                         /\ ipHandler' = [ipHandler EXCEPT
                                !.pc = "select",
                                !.target = resolved.member,
                                !.group = resolved.group,
                                !.candidates = candidates]
                         /\ UNCHANGED ipLog
    /\ UNCHANGED ipCluster
    /\ UNCHANGED <<firstVars, snapVars, rebuildVars, aclVars, postRest>>

\* The name is checked and a member is chosen.
IpSelect ==
    /\ ipHandler.pc = "select"
    /\ LET r == ipHandler.req
           selects == /\ ipCluster.clustered
                      /\ ~isClusterNotification(r)
                      /\ ~isClusterInternal(r)
           candidates == IF ipHandler.target # "" THEN <<ipHandler.target>>
                         ELSE ipHandler.candidates
       IN  \/ IpReject("BadRequest")
           \/ /\ ~selects
              /\ ipHandler' = [ipHandler EXCEPT !.pc = "route", !.placed = TRUE]
              /\ UNCHANGED ipLog
           \/ /\ selects
              /\ ipCluster.scriptlet
              /\ \/ IpReject("InternalError")
                 \/ IpReject("SmartError")
                 \/ \E placed \in ClusterMembers \cup {""} :
                      \E chosen \in {SelectMember(candidates, placed)} :
                        IF chosen = ""
                            THEN IpReject("InternalError")
                            ELSE /\ ipHandler' = [ipHandler EXCEPT
                                        !.pc = "route", !.target = chosen,
                                        !.placed = TRUE]
                                 /\ UNCHANGED ipLog
           \/ /\ selects
              /\ ~ipCluster.scriptlet
              /\ \E chosen \in {SelectMember(ipHandler.candidates, ipHandler.target)} :
                   IF chosen = ""
                       THEN /\ ipHandler' = [ipHandler EXCEPT
                                   !.pc = "done", !.response = "InternalError",
                                   !.placed = TRUE]
                            /\ ipLog' = Append(ipLog, IpEvent("reject", "InternalError"))
                       ELSE /\ ipHandler' = [ipHandler EXCEPT
                                   !.pc = "route", !.target = chosen,
                                   !.placed = TRUE]
                            /\ ipLog' = Append(ipLog, IpEvent("select", chosen))
    /\ UNCHANGED ipCluster
    /\ UNCHANGED <<firstVars, snapVars, rebuildVars, aclVars, postRest>>

\* The request is forwarded to the member chosen, or a creator is called.
IpRoute ==
    /\ ipHandler.pc = "route"
    /\ IF ipHandler.target # "" /\ ipHandler.target # ipHandler.member
           THEN \E fails \in BOOLEAN :
                  IF fails THEN IpReject("SmartError")
                  ELSE IpForward(ipHandler.target, TRUE)
           ELSE IF ipHandler.req.sourceType \in SourceTypes
                    THEN IpDispatch(ipHandler.req.sourceType)
                    ELSE IpReject("BadRequest")
    /\ UNCHANGED ipCluster
    /\ UNCHANGED <<firstVars, snapVars, rebuildVars, aclVars, postRest>>

\* The creator, up to the creation of its operation; createFromCopy may
\* hand over to createFromMigration with a nil request.
IpCreator ==
    /\ ipHandler.pc = "creator"
    /\ IF CreatorForbidden(ipHandler.creator, ipCluster, ipHandler.member,
                           ipHandler.req, ipHandler.rIsNil)
           THEN IpReject("Forbidden")
           ELSE \/ \E code \in {"BadRequest", "InternalError", "SmartError"} :
                     IpReject(code)
                \/ /\ ipHandler.creator = "copy"
                   /\ ipCluster.clustered
                   /\ ipHandler' = [ipHandler EXCEPT !.creator = "migration",
                                                     !.rIsNil = TRUE]
                   /\ UNCHANGED ipLog
                \/ /\ ipHandler' = [ipHandler EXCEPT !.pc = "run",
                                                     !.response = "Operation"]
                   /\ ipLog' = Append(ipLog, IpEvent("operation", ipHandler.creator))
    /\ UNCHANGED ipCluster
    /\ UNCHANGED <<firstVars, snapVars, rebuildVars, aclVars, postRest>>

\* The run of the operation: the instance is created, or the run fails.
IpRun ==
    /\ ipHandler.pc = "run"
    /\ \E fails \in BOOLEAN :
         IF fails
             THEN /\ ipHandler' = [ipHandler EXCEPT !.pc = "done"]
                  /\ ipLog' = Append(ipLog, IpEvent("failed", ipHandler.creator))
             ELSE /\ ipHandler' = [ipHandler EXCEPT !.pc = "finish"]
                  /\ ipLog' = Append(ipLog, IpEvent("created", ipHandler.creator))
    /\ UNCHANGED ipCluster
    /\ UNCHANGED <<firstVars, snapVars, rebuildVars, aclVars, postRest>>

\* instanceCreateFinish; the request createFromBackup passes has no start.
IpFinish ==
    /\ ipHandler.pc = "finish"
    /\ ipHandler' = [ipHandler EXCEPT !.pc = "done"]
    /\ LET req == IF ipHandler.creator = "backup" THEN NoRequest ELSE ipHandler.req
       IN  IF Starts(req)
               THEN \E fails \in BOOLEAN :
                      ipLog' = Append(ipLog,
                                  IpEvent("start", IF fails THEN "failed" ELSE "started"))
               ELSE UNCHANGED ipLog
    /\ UNCHANGED ipCluster
    /\ UNCHANGED <<firstVars, snapVars, rebuildVars, aclVars, postRest>>

NextPost ==
    \/ IpReceive
    \/ IpRefresh
    \/ IpTransaction
    \/ IpSelect
    \/ IpRoute
    \/ IpCreator
    \/ IpRun
    \/ IpFinish

\* ---- what the claims speak of ----

\* The handler has been through a creator on an evacuated member.
AtEvacuatedCreator ==
    /\ ipHandler.creator # ""
    /\ ipHandler.pc \in {"run", "finish", "done"}
    /\ ipCluster.clustered
    /\ ipHandler.member \in ipCluster.evacuated

\* C23: a creator on an evacuated member answers a request that is not a
\* cluster notification with Forbidden, whatever the source, and accepts one
\* that is a cluster notification.
C23_EvacuatedRejects ==
    AtEvacuatedCreator =>
        IF isClusterNotification(ipHandler.req)
            THEN ipHandler.response # "Forbidden"
            ELSE ipHandler.response = "Forbidden"

\* The member the claim names for a target and a list of candidates ("":
\* none, the request fails).
NamedOrFirst(target, candidates) ==
    IF target \in ClusterMembers THEN target
    ELSE IF Len(candidates) > 0 THEN candidates[1]
    ELSE ""

\* The handler is past the choice of a member, and what it chose is what
\* the claim names.
ChoseNamedOrFirst ==
    /\ ipHandler.target = NamedOrFirst(ipHandler.req.target, ipHandler.candidates)
    /\ ipHandler.target = "" =>
          /\ ipHandler.pc = "done"
          /\ ipHandler.response = "InternalError"
          /\ \A i \in DOMAIN ipLog : ipLog[i].kind \notin {"forward", "dispatch"}
    /\ Cardinality({i \in DOMAIN ipLog :
                        ipLog[i].hop = ipHandler.hop /\ ipLog[i].kind = "select"}) <= 1

C24_WitnessNone ==
    /\ ipHandler.placed
    /\ ~ipCluster.scriptlet
    /\ ipCluster.clustered
    /\ ipHandler.req.protocol = "tls"
    /\ ipHandler.req.target = "group1"
    /\ ipHandler.candidates = << >>
    /\ ipHandler.response = "InternalError"

\* The entries of the log of one handler.
EventsOf(hop, kinds) == {i \in DOMAIN ipLog : ipLog[i].hop = hop /\ ipLog[i].kind \in kinds}

\* C25: every handler forwards the request, or calls one creator, or
\* rejects it, and does one of these only; a request received as a cluster
\* notification is not forwarded, and no request is forwarded twice; an
\* instance is started only for a request with start set, after the creator
\* of its handler has created it.
C25_OnePath ==
    /\ \A hop \in 0..ipHandler.hop :
          /\ Cardinality(EventsOf(hop, {"forward", "dispatch"})) <= 1
          /\ \A i \in EventsOf(hop, {"reject"}) :
                \/ EventsOf(hop, {"forward", "dispatch"}) = {}
                \/ \E j \in EventsOf(hop, {"dispatch"}) : j < i
          /\ (hop < ipHandler.hop \/ ipHandler.pc = "done") =>
                EventsOf(hop, {"forward", "dispatch", "reject"}) # {}
          /\ \A i \in EventsOf(hop, {"operation", "created", "failed", "start"}) :
                \E j \in EventsOf(hop, {"dispatch"}) : j < i
    /\ \A i \in DOMAIN ipLog : ipLog[i].kind = "forward" => ~ipLog[i].notification
    /\ ipHandler.hop <= 1
    /\ \A i \in DOMAIN ipLog :
          ipLog[i].kind = "start" =>
             /\ ipLog[i].start
             /\ \E j \in 1..(i - 1) :
                   ipLog[j].kind = "created" /\ ipLog[j].hop = ipLog[i].hop

\* A request with start set is forwarded to the member chosen, created
\* there from an image and started.
C25_Witness ==
    /\ ipHandler.pc = "done"
    /\ ipHandler.hop = 1
    /\ Len(ipLog) = 6
    /\ ipLog[2].kind = "forward"
    /\ ipLog[3] = [kind |-> "dispatch", member |-> "node2", hop |-> 1, what |-> "image",
                   notification |-> TRUE, start |-> TRUE]
    /\ ipLog[5].kind = "created"
    /\ ipLog[6].kind = "start"

\* The refresh of an instance of another member is forwarded to it and
\* handled there by createFromMigration.
C25_WitnessRefresh ==
    /\ ipHandler.pc = "run"
    /\ ipHandler.hop = 1
    /\ ipHandler.creator = "migration"
    /\ ipHandler.req.refresh
    /\ ~ipHandler.req.notification

(***************************************************************************)
(* createFromMigration: the handler, its reverter and the run              *)
(*                                                                         *)
(* A reverter is the list of its hooks: Fail runs them last to first and   *)
(* empties the list, Success empties it, Clone copies it. The run of the   *)
(* operation begins after the handler has returned its response.           *)
(***************************************************************************)

\* The hooks the handler adds to its reverter (lines 314-342): the cleanup
\* of CreateInternal for an instance it created, then the completion of the
\* instance operation.
HandlerHooksNoCleanup(existed) == <<"Done">>

HandlerHooks(existed) == IF existed THEN <<"Done">> ELSE <<"cleanup", "Done">>

\* reverter.Clone()
Clone(reverter) == reverter

\* The state of an instance after a hook: cleanup deletes the record that
\* CreateInternal made, Done completes the instance operation.
AfterHook(inst, h) ==
    CASE h = "cleanup" -> [inst EXCEPT !.record = FALSE]
      [] h = "Done" -> [inst EXCEPT !.lock = "done"]
      [] OTHER -> inst

\* The name of the instance of the request.
MgReqName == "c1"

\* What the source of a request that is no cluster move names.
NoClusterMove == ""

\* The early check of a refresh and of a cluster move under the same name
\* (lines 297-311), with Refresh left as the request had it.
EarlyCheckKeepsRefresh(refresh, clusterMoveSourceName, exists, dbFails) ==
    IF ~(refresh \/ clusterMoveSourceName = MgReqName)
        THEN [refresh |-> refresh, loaded |-> FALSE, early |-> NoError]
    ELSE IF dbFails THEN [refresh |-> refresh, loaded |-> FALSE, early |-> "database error"]
    ELSE IF exists THEN [refresh |-> refresh, loaded |-> TRUE, early |-> NoError]
    ELSE IF clusterMoveSourceName # NoClusterMove
        THEN [refresh |-> refresh, loaded |-> FALSE,
              early |-> "Cluster move doesn't allow renaming"]
    ELSE [refresh |-> refresh, loaded |-> FALSE, early |-> NoError]

\* The early check of a refresh and of a cluster move under the same name
\* (lines 297-311): req.Source.Refresh after it, whether inst is loaded, and
\* the error returned.
EarlyCheck(refresh, clusterMoveSourceName, exists, dbFails) ==
    IF ~(refresh \/ clusterMoveSourceName = MgReqName)
        THEN [refresh |-> refresh, loaded |-> FALSE, early |-> NoError]
    ELSE IF dbFails THEN [refresh |-> refresh, loaded |-> FALSE, early |-> "database error"]
    ELSE IF exists THEN [refresh |-> refresh, loaded |-> TRUE, early |-> NoError]
    ELSE IF clusterMoveSourceName # NoClusterMove
        THEN [refresh |-> refresh, loaded |-> FALSE,
              early |-> "Cluster move doesn't allow renaming"]
    ELSE [refresh |-> FALSE, loaded |-> FALSE, early |-> NoError]

MigrationIdle ==
    /\ mgInput = [existed |-> FALSE, start |-> FALSE, storagePool |-> FALSE, push |-> FALSE,
                  refresh |-> FALSE, clusterMoveSourceName |-> NoClusterMove]
    /\ mgReq = [refresh |-> FALSE, loaded |-> FALSE, early |-> AvPending]
    /\ mgPc = "idle"
    /\ mgReverters = [handler |-> << >>, run |-> << >>]
    /\ mgInst = [record |-> FALSE, lock |-> "none"]
    /\ mgLog = << >>
    /\ mgResult = [response |-> "", err |-> AvPending]

\* A request, a refresh or a cluster move or neither, for an instance that
\* exists or does not.
MigrationStart ==
    /\ mgInput \in [existed : BOOLEAN, start : BOOLEAN, storagePool : BOOLEAN,
                    push : BOOLEAN, refresh : BOOLEAN,
                    clusterMoveSourceName : {NoClusterMove, MgReqName, "c2"}]
    /\ mgReq = [refresh |-> mgInput.refresh, loaded |-> FALSE, early |-> AvPending]
    /\ mgPc = "check"
    /\ mgReverters = [handler |-> << >>, run |-> << >>]
    /\ mgInst = [record |-> mgInput.existed, lock |-> "none"]
    /\ mgLog = << >>
    /\ mgResult = [response |-> "", err |-> AvPending]

\* The handler returns an error response: the deferred reverter.Fail() is
\* next.
MgHandlerError(code) ==
    /\ mgPc' = "handlerFail"
    /\ mgResult' = [mgResult EXCEPT !.response = code]

\* The run returns an error: the deferred runReverter.Fail() is next.
MgRunError(err) ==
    /\ mgPc' = "runFail"
    /\ mgResult' = [mgResult EXCEPT !.err = err]

\* The checks of the request before the instance is looked up (lines
\* 212-295).
MgCheck ==
    /\ mgPc = "check"
    /\ \/ \E code \in {"Forbidden", "NotImplemented", "BadRequest", "SmartError"} :
            /\ mgPc' = "returned"
            /\ mgResult' = [mgResult EXCEPT !.response = code]
       \/ mgPc' = "LoadByProjectAndName" /\ UNCHANGED mgResult
    /\ UNCHANGED <<mgInput, mgReq, mgReverters, mgInst, mgLog>>
    /\ UNCHANGED <<firstVars, snapVars, rebuildVars, aclVars, migrationRest>>

\* The early check of a refresh and of a cluster move under the same name
\* (lines 297-311); the reverter does not exist yet.
MgLoadByProjectAndName ==
    /\ mgPc = "LoadByProjectAndName"
    /\ \E dbFails \in BOOLEAN :
         \E outcome \in {EarlyCheck(mgReq.refresh, mgInput.clusterMoveSourceName,
                                    mgInst.record, dbFails)} :
           /\ mgReq' = outcome
           /\ IF outcome.early # NoError
                  THEN /\ mgPc' = "returned"
                       /\ mgResult' = [mgResult EXCEPT !.response = "SmartError"]
                  ELSE /\ mgPc' = "create"
                       /\ UNCHANGED mgResult
    /\ UNCHANGED <<mgInput, mgReverters, mgInst, mgLog>>
    /\ UNCHANGED <<firstVars, snapVars, rebuildVars, aclVars, migrationRest>>

\* The record is created, or the existing instance is locked, and the
\* hooks are added (lines 310-342).
MgCreate ==
    /\ mgPc = "create"
    /\ \/ /\ MgHandlerError(IF mgReq.loaded THEN "SmartError" ELSE "InternalError")
          /\ UNCHANGED <<mgReverters, mgInst>>
       \/ /\ mgReq.loaded \/ ~mgInst.record
          /\ mgInst' = [record |-> TRUE, lock |-> "held"]
          /\ mgReverters' = [mgReverters EXCEPT !.handler = HandlerHooks(mgReq.loaded)]
          /\ mgPc' = "sink"
          /\ UNCHANGED mgResult
    /\ UNCHANGED <<mgInput, mgReq, mgLog>>
    /\ UNCHANGED <<firstVars, snapVars, rebuildVars, aclVars, migrationRest>>

\* The dialer and the sink are set up and the reverter is cloned for the
\* run (lines 344-381).
MgSink ==
    /\ mgPc = "sink"
    /\ \/ /\ ~mgInput.push
          /\ MgHandlerError("SmartError")
          /\ UNCHANGED mgReverters
       \/ /\ MgHandlerError("InternalError")
          /\ UNCHANGED mgReverters
       \/ /\ mgReverters' = [mgReverters EXCEPT !.run = Clone(mgReverters.handler)]
          /\ mgPc' = "OperationCreate"
          /\ UNCHANGED mgResult
    /\ UNCHANGED <<mgInput, mgReq, mgInst, mgLog>>
    /\ UNCHANGED <<firstVars, snapVars, rebuildVars, aclVars, migrationRest>>

\* The operation is created, the reverter succeeds and the handler
\* returns the operation (lines 453-467).
MgOperationCreate ==
    /\ mgPc = "OperationCreate"
    /\ \/ /\ MgHandlerError("InternalError")
          /\ UNCHANGED mgReverters
       \/ /\ mgReverters' = [mgReverters EXCEPT !.handler = << >>]
          /\ mgPc' = "Do"
          /\ mgResult' = [mgResult EXCEPT !.response = "Operation"]
    /\ UNCHANGED <<mgInput, mgReq, mgInst, mgLog>>
    /\ UNCHANGED <<firstVars, snapVars, rebuildVars, aclVars, migrationRest>>

\* reverter.Fail() of the handler, a hook at a time.
MgHandlerFail ==
    /\ mgPc = "handlerFail"
    /\ IF mgReverters.handler = << >>
           THEN /\ mgPc' = "returned"
                /\ UNCHANGED <<mgReverters, mgInst, mgLog>>
           ELSE LET n == Len(mgReverters.handler)
                    h == mgReverters.handler[n]
                IN  /\ mgReverters' = [mgReverters EXCEPT
                                          !.handler = SubSeq(@, 1, n - 1)]
                    /\ mgInst' = AfterHook(mgInst, h)
                    /\ mgLog' = Append(mgLog, [by |-> "handler", hook |-> h])
                    /\ UNCHANGED mgPc
    /\ UNCHANGED <<mgInput, mgReq, mgResult>>
    /\ UNCHANGED <<firstVars, snapVars, rebuildVars, aclVars, migrationRest>>

\* The run: sink.Do and the completion of the instance operation (lines
\* 386-398).
MgDo ==
    /\ mgPc = "Do"
    /\ mgInst' = [mgInst EXCEPT !.lock = "done"]
    /\ \/ MgRunError("Error transferring instance data")
       \/ /\ mgPc' = IF mgInput.storagePool THEN "UpdateInstanceDevices" ELSE "finish"
          /\ UNCHANGED mgResult
    /\ UNCHANGED <<mgInput, mgReq, mgReverters, mgLog>>
    /\ UNCHANGED <<firstVars, snapVars, rebuildVars, aclVars, migrationRest>>

\* The run: the root device is updated in the database (lines 400-444).
MgUpdateInstanceDevices ==
    /\ mgPc = "UpdateInstanceDevices"
    /\ \/ MgRunError("UpdateInstanceDevices")
       \/ mgPc' = "finish" /\ UNCHANGED mgResult
    /\ UNCHANGED <<mgInput, mgReq, mgReverters, mgInst, mgLog>>
    /\ UNCHANGED <<firstVars, snapVars, rebuildVars, aclVars, migrationRest>>

\* The run: runReverter.Success(), then instanceCreateFinish (lines
\* 446-448); the deferred runReverter.Fail() follows in either case.
MgFinish ==
    /\ mgPc = "finish"
    /\ mgReverters' = [mgReverters EXCEPT !.run = << >>]
    /\ \/ /\ mgInput.start
          /\ MgRunError("Start")
       \/ /\ mgPc' = "runFail"
          /\ mgResult' = [mgResult EXCEPT !.err = NoError]
    /\ UNCHANGED <<mgInput, mgReq, mgInst, mgLog>>
    /\ UNCHANGED <<firstVars, snapVars, rebuildVars, aclVars, migrationRest>>

\* The deferred runReverter.Fail(), a hook at a time.
MgRunFail ==
    /\ mgPc = "runFail"
    /\ IF mgReverters.run = << >>
           THEN /\ mgPc' = "finished"
                /\ UNCHANGED <<mgReverters, mgInst, mgLog>>
           ELSE LET n == Len(mgReverters.run)
                    h == mgReverters.run[n]
                IN  /\ mgReverters' = [mgReverters EXCEPT !.run = SubSeq(@, 1, n - 1)]
                    /\ mgInst' = AfterHook(mgInst, h)
                    /\ mgLog' = Append(mgLog, [by |-> "run", hook |-> h])
                    /\ UNCHANGED mgPc
    /\ UNCHANGED <<mgInput, mgReq, mgResult>>
    /\ UNCHANGED <<firstVars, snapVars, rebuildVars, aclVars, migrationRest>>

NextMigration ==
    \/ MgCheck
    \/ MgLoadByProjectAndName
    \/ MgCreate
    \/ MgSink
    \/ MgOperationCreate
    \/ MgHandlerFail
    \/ MgDo
    \/ MgUpdateInstanceDevices
    \/ MgFinish
    \/ MgRunFail

\* ---- what the claim speaks of ----

\* The request has ended: the handler has returned an error response, or the
\* run has returned.
MgEnded == mgPc \in {"returned", "finished"}

MgError == (mgPc = "returned") \/ (mgPc = "finished" /\ mgResult.err # NoError)

\* How often a hook has run.
HookRuns(h) == Cardinality({i \in DOMAIN mgLog : mgLog[i].hook = h})

\* No hook ran twice, none ran when the run succeeded, and a request that
\* ended has no instance operation left open.
MgCompensatedOnce ==
    /\ \A h \in {"cleanup", "Done"} : HookRuns(h) <= 1
    /\ (mgPc = "finished" /\ mgResult.err = NoError) =>
          (mgLog = << >> /\ mgInst.record)
    /\ MgEnded => mgInst.lock \in {"none", "done"}

\* C26 as stated: every error of a request for an instance that did not
\* exist, the failure of the start included, leaves no record.
C26_ErrorLeavesNothingAsClaimed ==
    /\ MgCompensatedOnce
    /\ (MgEnded /\ MgError /\ ~mgInput.existed) => ~mgInst.record

\* C26: when a request for an instance that did not exist ends in an error
\* of the handler, of the transfer or of the root device update, no record
\* of the instance remains and its instance operation is completed; when
\* only the start fails the record stays; the hooks of the handler run at
\* most once in all, by the handler's reverter or by the clone of the run,
\* and none runs when the run succeeds.
C26_ErrorLeavesNothing ==
    /\ MgCompensatedOnce
    /\ (MgEnded /\ MgError /\ ~mgInput.existed) =>
          (mgInst.record <=> mgResult.err = "Start")

\* The root device update fails after the transfer: the clone has run both
\* hooks and the record is gone.
C26_Witness ==
    /\ mgPc = "finished"
    /\ ~mgInput.existed
    /\ mgResult.err = "UpdateInstanceDevices"
    /\ mgLog = <<[by |-> "run", hook |-> "Done"], [by |-> "run", hook |-> "cleanup"]>>
    /\ ~mgInst.record

\* The creation of the operation fails: the handler's reverter has run them.
C26_WitnessHandler ==
    /\ mgPc = "returned"
    /\ ~mgInput.existed
    /\ mgReverters.run # << >>
    /\ mgLog = <<[by |-> "handler", hook |-> "Done"], [by |-> "handler", hook |-> "cleanup"]>>
    /\ ~mgInst.record

\* C40: a request that found the instance it refreshes never loses the
\* record of that instance, whether the handler or the run fails, and the
\* only hook that runs for it is the completion of the exclusive lock; a
\* refresh whose instance is not found goes on as a creation with Refresh
\* false, unless the request is a cluster move, which is refused before any
\* record or lock exists.
C40_RefreshKeepsRecord ==
    /\ mgReq.loaded =>
          /\ mgInst.record
          /\ \A i \in DOMAIN mgLog : mgLog[i].hook = "Done"
          /\ MgEnded => mgInst.lock \in {"none", "done"}
    /\ (/\ mgInput.refresh
        /\ ~mgInput.existed
        /\ mgReq.early \notin {AvPending, "database error"}) =>
          IF mgInput.clusterMoveSourceName = NoClusterMove
              THEN mgReq.early = NoError /\ ~mgReq.refresh /\ ~mgReq.loaded
              ELSE /\ mgReq.early = "Cluster move doesn't allow renaming"
                   /\ mgPc = "returned"
                   /\ mgResult.response = "SmartError"
                   /\ mgInst = [record |-> FALSE, lock |-> "none"]

\* The transfer of a refresh into an instance that exists fails: the clone
\* has completed the lock and the record is there.
C40_Witness ==
    /\ mgPc = "finished"
    /\ mgInput.refresh
    /\ mgReq.loaded
    /\ mgResult.err = "Error transferring instance data"
    /\ mgLog = <<[by |-> "run", hook |-> "Done"]>>
    /\ mgInst = [record |-> TRUE, lock |-> "done"]

\* A refresh whose instance was not found has been run as a creation.
C40_WitnessCreate ==
    /\ mgPc = "finished"
    /\ mgInput.refresh
    /\ ~mgInput.existed
    /\ ~mgReq.refresh
    /\ mgResult.err = NoError
    /\ mgInst.record

(***************************************************************************)
(* backupCreate                                                            *)
(*                                                                         *)
(* The function and its tar writer goroutine share the variable err and    *)
(* the variable compressErr; every read and every write of them is a step  *)
(* of its own. A write to the pipe returns when the goroutine has read the *)
(* data or when the write end is closed; a read returns data, or the end   *)
(* of the stream once the write end is closed. The tarball is written in   *)
(* three parts: the index, the instance, the end of the archive.           *)
(***************************************************************************)

\* The parts the tarball is written in, in order.
TarParts == <<"index", "instance", "end">>

\* The hook added after MkdirAll: none when the directory existed.
DirHookNever(dirExisted) == << >>

DirHook(dirExisted) == IF dirExisted THEN << >> ELSE <<"Remove backupsPath">>

\* What a hook of the reverter removes when its call succeeds.
AfterBackupHook(fs, h) ==
    CASE h = "DeleteInstanceBackup" -> [fs EXCEPT !.row = FALSE]
      [] h = "Remove backupsPath" -> [fs EXCEPT !.dir = FALSE]
      [] h = "Remove target" -> [fs EXCEPT !.file = FALSE, !.written = << >>,
                                           !.complete = FALSE]
      [] OTHER -> fs

BackupIdle ==
    /\ bkInput = [compress |-> "", row |-> FALSE, dir |-> FALSE, file |-> FALSE]
    /\ bkPc = "idle"
    /\ bkGo = "idle"
    /\ bkErr = NoError
    /\ bkCompressErr = NoError
    /\ bkPipe = [data |-> "", closed |-> FALSE]
    /\ bkChan = [full |-> FALSE, err |-> NoError]
    /\ bkFs = [row |-> FALSE, dir |-> FALSE, file |-> FALSE, written |-> << >>,
               complete |-> FALSE, inserted |-> FALSE, made |-> FALSE]
    /\ bkReverter = << >>
    /\ bkLog = << >>
    /\ bkResult = AvPending

\* A call with or without compression; the backups directory of the
\* instance may exist, and a backup of the name with its row and its file.
BackupStart ==
    /\ bkInput \in [compress : {"none", "gzip"}, row : BOOLEAN, dir : BOOLEAN,
                    file : BOOLEAN]
    /\ bkInput.file <=> bkInput.row
    /\ bkInput.file => bkInput.dir
    /\ bkPc = "LoadByInstance"
    /\ bkGo = "idle"
    /\ bkErr = NoError
    /\ bkCompressErr = NoError
    /\ bkPipe = [data |-> "", closed |-> FALSE]
    /\ bkChan = [full |-> FALSE, err |-> NoError]
    /\ bkFs = [row |-> bkInput.row, dir |-> bkInput.dir, file |-> bkInput.file,
               written |-> << >>, complete |-> FALSE, inserted |-> FALSE,
               made |-> FALSE]
    /\ bkReverter = << >>
    /\ bkLog = << >>
    /\ bkResult = AvPending

\* The function returns the error: the deferred closes and the deferred
\* reverter.Fail() follow.
BkReturn(err) ==
    /\ bkPc' = "deferred"
    /\ bkResult' = err

\* The steps up to the creation of the database entry (lines 45-64).
BkCreateInstanceBackup ==
    /\ bkPc = "LoadByInstance"
    /\ \/ /\ BkReturn("Failed loading instance storage pool")
          /\ UNCHANGED <<bkFs, bkReverter>>
       \/ /\ bkFs.row
          /\ BkReturn("Backup already exists")
          /\ UNCHANGED <<bkFs, bkReverter>>
       \/ /\ BkReturn("Insert backup info into database")
          /\ UNCHANGED <<bkFs, bkReverter>>
       \/ /\ ~bkFs.row
          /\ bkFs' = [bkFs EXCEPT !.row = TRUE, !.inserted = TRUE]
          /\ bkReverter' = <<"DeleteInstanceBackup">>
          /\ bkPc' = "BackupLoadByName"
          /\ UNCHANGED bkResult
    /\ UNCHANGED <<bkInput, bkGo, bkErr, bkCompressErr, bkPipe, bkChan, bkLog>>
    /\ UNCHANGED <<firstVars, snapVars, rebuildVars, aclVars, backupRest>>

\* The backup is loaded, the compression found and the directory made
\* (lines 72-116).
BkMkdirAll ==
    /\ bkPc = "BackupLoadByName"
    /\ \/ /\ \E err \in {"Load backup object", "GetProject", "MkdirAll"} : BkReturn(err)
          /\ UNCHANGED <<bkFs, bkReverter>>
       \/ /\ bkFs' = [bkFs EXCEPT !.dir = TRUE, !.made = ~bkFs.dir]
          /\ bkReverter' = bkReverter \o DirHook(bkFs.dir)
          /\ bkPc' = "OpenFile"
          /\ UNCHANGED bkResult
    /\ UNCHANGED <<bkInput, bkGo, bkErr, bkCompressErr, bkPipe, bkChan, bkLog>>
    /\ UNCHANGED <<firstVars, snapVars, rebuildVars, aclVars, backupRest>>

\* The target is opened (lines 118-128).
BkOpenFile ==
    /\ bkPc = "OpenFile"
    /\ \/ /\ BkReturn("Error opening backup tarball for writing")
          /\ UNCHANGED <<bkFs, bkReverter>>
       \/ /\ bkFs' = [bkFs EXCEPT !.file = TRUE]
          /\ bkReverter' = Append(bkReverter, "Remove target")
          /\ bkPc' = "go"
          /\ UNCHANGED bkResult
    /\ UNCHANGED <<bkInput, bkGo, bkErr, bkCompressErr, bkPipe, bkChan, bkLog>>
    /\ UNCHANGED <<firstVars, snapVars, rebuildVars, aclVars, backupRest>>

\* The id map is read, the pipe made and the goroutine started (lines
\* 130-182).
BkGo ==
    /\ bkPc = "go"
    /\ \/ /\ BkReturn("Error getting container IDMAP")
          /\ UNCHANGED bkGo
       \/ /\ bkGo' = "read"
          /\ bkPc' = "index"
          /\ UNCHANGED bkResult
    /\ UNCHANGED <<bkInput, bkErr, bkCompressErr, bkPipe, bkChan, bkFs, bkReverter, bkLog>>
    /\ UNCHANGED <<firstVars, snapVars, rebuildVars, aclVars, backupRest>>

\* The position after a part of the tarball has been written, or failed.
AfterPart(part) ==
    CASE part = "index" -> "checkCompressErr"
      [] part = "instance" -> "checkInstance"
      [] OTHER -> "checkEnd"

\* backupWriteIndex, pool.BackupInstance and tarWriter.Close begin: they
\* fail of themselves or on a pipe whose write end is closed, or they put
\* their data into the pipe.
BkWrite ==
    /\ bkPc \in {"index", "instance", "end"}
    /\ \/ /\ bkErr' = "failed " \o bkPc
          /\ bkPc' = AfterPart(bkPc)
          /\ UNCHANGED bkPipe
       \/ /\ bkPipe.closed
          /\ bkErr' = "io: read/write on closed pipe"
          /\ bkPc' = AfterPart(bkPc)
          /\ UNCHANGED bkPipe
       \/ /\ ~bkPipe.closed
          /\ bkPipe' = [bkPipe EXCEPT !.data = bkPc]
          /\ bkPc' = "wait " \o bkPc
          /\ UNCHANGED bkErr
    /\ UNCHANGED <<bkInput, bkGo, bkCompressErr, bkChan, bkFs, bkReverter, bkLog, bkResult>>
    /\ UNCHANGED <<firstVars, snapVars, rebuildVars, aclVars, backupRest>>

\* The write returns: the data has been read, or the write end was closed.
BkWritten ==
    /\ \E part \in {"index", "instance", "end"} :
         /\ bkPc = "wait " \o part
         /\ \/ /\ bkPipe.data = ""
               /\ bkErr' = NoError
               /\ UNCHANGED bkPipe
            \/ /\ bkPipe.data # ""
               /\ bkPipe.closed
               /\ bkErr' = "io: read/write on closed pipe"
               /\ bkPipe' = [bkPipe EXCEPT !.data = ""]
         /\ bkPc' = AfterPart(part)
    /\ UNCHANGED <<bkInput, bkGo, bkCompressErr, bkChan, bkFs, bkReverter, bkLog, bkResult>>
    /\ UNCHANGED <<firstVars, snapVars, rebuildVars, aclVars, backupRest>>

\* if compressErr != nil { return compressErr } (lines 188-191)
BkCheckCompressErr ==
    /\ bkPc = "checkCompressErr"
    /\ IF bkCompressErr # NoError
           THEN BkReturn(bkCompressErr)
           ELSE bkPc' = "checkIndex" /\ UNCHANGED bkResult
    /\ UNCHANGED <<bkInput, bkGo, bkErr, bkCompressErr, bkPipe, bkChan, bkFs, bkReverter,
                   bkLog>>
    /\ UNCHANGED <<firstVars, snapVars, rebuildVars, aclVars, backupRest>>

\* if err != nil { return ... } after a part, a receive or a close.
BkCheckErr ==
    /\ bkPc \in {"checkIndex", "checkInstance", "checkEnd", "checkClose", "checkRes",
                 "checkFile"}
    /\ IF bkErr # NoError
           THEN BkReturn(bkErr)
           ELSE /\ bkPc' = CASE bkPc = "checkIndex" -> "instance"
                             [] bkPc = "checkInstance" -> "end"
                             [] bkPc = "checkEnd" -> "closePipe"
                             [] bkPc = "checkClose" -> "receive"
                             [] bkPc = "checkRes" -> "closeFile"
                             [] OTHER -> "Success"
                /\ UNCHANGED bkResult
    /\ UNCHANGED <<bkInput, bkGo, bkErr, bkCompressErr, bkPipe, bkChan, bkFs, bkReverter,
                   bkLog>>
    /\ UNCHANGED <<firstVars, snapVars, rebuildVars, aclVars, backupRest>>

\* err = tarPipeWriter.Close() (line 209)
BkClosePipe ==
    /\ bkPc = "closePipe"
    /\ bkPipe' = [bkPipe EXCEPT !.closed = TRUE]
    /\ bkErr' = NoError
    /\ bkPc' = "checkClose"
    /\ UNCHANGED <<bkInput, bkGo, bkCompressErr, bkChan, bkFs, bkReverter, bkLog, bkResult>>
    /\ UNCHANGED <<firstVars, snapVars, rebuildVars, aclVars, backupRest>>

\* err = <-tarWriterRes (line 214): the value offered is taken and the
\* goroutine goes on to its end.
BkReceive ==
    /\ bkPc = "receive"
    /\ bkChan.full
    /\ bkErr' = bkChan.err
    /\ bkChan' = [full |-> FALSE, err |-> NoError]
    /\ bkPc' = "checkRes"
    /\ bkGo' = "sent"
    /\ UNCHANGED <<bkInput, bkCompressErr, bkPipe, bkFs, bkReverter, bkLog, bkResult>>
    /\ UNCHANGED <<firstVars, snapVars, rebuildVars, aclVars, backupRest>>

\* err = tarFileWriter.Close() (line 219)
BkCloseFile ==
    /\ bkPc = "closeFile"
    /\ \E err \in {NoError, "Error closing tar file"} : bkErr' = err
    /\ bkPc' = "checkFile"
    /\ UNCHANGED <<bkInput, bkGo, bkCompressErr, bkPipe, bkChan, bkFs, bkReverter, bkLog,
                   bkResult>>
    /\ UNCHANGED <<firstVars, snapVars, rebuildVars, aclVars, backupRest>>

\* reverter.Success() and return nil (lines 224-227)
BkSuccess ==
    /\ bkPc = "Success"
    /\ bkReverter' = << >>
    /\ BkReturn(NoError)
    /\ UNCHANGED <<bkInput, bkGo, bkErr, bkCompressErr, bkPipe, bkChan, bkFs, bkLog>>
    /\ UNCHANGED <<firstVars, snapVars, rebuildVars, aclVars, backupRest>>

\* The deferred closes of the pipe and of the file.
BkDeferred ==
    /\ bkPc = "deferred"
    /\ bkPipe' = [bkPipe EXCEPT !.closed = TRUE]
    /\ bkPc' = "Fail"
    /\ UNCHANGED <<bkInput, bkGo, bkErr, bkCompressErr, bkChan, bkFs, bkReverter, bkLog,
                   bkResult>>
    /\ UNCHANGED <<firstVars, snapVars, rebuildVars, aclVars, backupRest>>

\* The deferred reverter.Fail(), a hook at a time; the error of the call a
\* hook makes is dropped, and a directory that is not empty is not removed.
BkFail ==
    /\ bkPc = "Fail"
    /\ IF bkReverter = << >>
           THEN /\ bkPc' = "returned"
                /\ UNCHANGED <<bkFs, bkReverter, bkLog>>
           ELSE LET n == Len(bkReverter)
                    h == bkReverter[n]
                IN  /\ bkReverter' = SubSeq(bkReverter, 1, n - 1)
                    /\ \E ok \in BOOLEAN :
                         /\ (h = "Remove backupsPath" /\ bkFs.file) => ~ok
                         /\ bkFs' = IF ok THEN AfterBackupHook(bkFs, h) ELSE bkFs
                         /\ bkLog' = Append(bkLog, [hook |-> h, ok |-> ok])
                    /\ UNCHANGED bkPc
    /\ UNCHANGED <<bkInput, bkGo, bkErr, bkCompressErr, bkPipe, bkChan, bkResult>>
    /\ UNCHANGED <<firstVars, snapVars, rebuildVars, aclVars, backupRest>>

\* The goroutine reads the pipe: data, or the end of the stream.
GoRead ==
    /\ bkGo = "read"
    /\ \/ /\ bkPipe.data # ""
          /\ bkPipe' = [bkPipe EXCEPT !.data = ""]
          /\ bkGo' = "write " \o bkPipe.data
       \/ /\ bkPipe.data = ""
          /\ bkPipe.closed
          /\ bkGo' = "flush"
          /\ UNCHANGED bkPipe
    /\ UNCHANGED <<bkInput, bkPc, bkErr, bkCompressErr, bkChan, bkFs, bkReverter, bkLog,
                   bkResult>>
    /\ UNCHANGED <<firstVars, snapVars, rebuildVars, aclVars, backupRest>>

\* The goroutine writes what it has read to the file, compressed or not,
\* or fails in it; at the end of the stream the compressor writes the rest.
GoWrite ==
    /\ \/ \E part \in {"index", "instance", "end"} :
            /\ bkGo = "write " \o part
            /\ \/ /\ bkFs' = [bkFs EXCEPT !.written = Append(@, part)]
                  /\ bkGo' = "read"
               \/ /\ bkGo' = "failed"
                  /\ UNCHANGED bkFs
       \/ /\ bkGo = "flush"
          /\ \/ /\ bkFs' = [bkFs EXCEPT !.complete = (bkFs.written = TarParts)]
                /\ bkGo' = "finished"
             \/ /\ bkInput.compress # "none"
                /\ bkGo' = "failed"
                /\ UNCHANGED bkFs
    /\ UNCHANGED <<bkInput, bkPc, bkErr, bkCompressErr, bkPipe, bkChan, bkReverter, bkLog,
                   bkResult>>
    /\ UNCHANGED <<firstVars, snapVars, rebuildVars, aclVars, backupRest>>

\* compressFile or io.Copy has returned: with compression its error goes
\* to compressErr, without to err (lines 166-177).
GoAssign ==
    /\ bkGo \in {"failed", "finished"}
    /\ LET res == IF bkGo = "failed" THEN "Error writing tarball" ELSE NoError
       IN  IF bkInput.compress # "none"
               THEN /\ bkCompressErr' = res
                    /\ bkGo' = IF res # NoError THEN "closePipe" ELSE "send"
                    /\ UNCHANGED bkErr
               ELSE /\ bkErr' = res
                    /\ bkGo' = "send"
                    /\ UNCHANGED bkCompressErr
    /\ UNCHANGED <<bkInput, bkPc, bkPipe, bkChan, bkFs, bkReverter, bkLog, bkResult>>
    /\ UNCHANGED <<firstVars, snapVars, rebuildVars, aclVars, backupRest>>

\* After a compression error the goroutine closes the write end (line 171).
GoClosePipe ==
    /\ bkGo = "closePipe"
    /\ bkPipe' = [bkPipe EXCEPT !.closed = TRUE]
    /\ bkGo' = "send"
    /\ UNCHANGED <<bkInput, bkPc, bkErr, bkCompressErr, bkChan, bkFs, bkReverter, bkLog,
                   bkResult>>
    /\ UNCHANGED <<firstVars, snapVars, rebuildVars, aclVars, backupRest>>

\* resCh <- err (line 179): the value of err is offered; the channel has no
\* buffer, so the goroutine waits until backupCreate receives it.
GoSend ==
    /\ bkGo = "send"
    /\ bkChan' = [full |-> TRUE, err |-> bkErr]
    /\ bkGo' = "sending"
    /\ UNCHANGED <<bkInput, bkPc, bkErr, bkCompressErr, bkPipe, bkFs, bkReverter, bkLog,
                   bkResult>>
    /\ UNCHANGED <<firstVars, snapVars, rebuildVars, aclVars, backupRest>>

NextBackup ==
    \/ BkCreateInstanceBackup
    \/ BkMkdirAll
    \/ BkOpenFile
    \/ BkGo
    \/ BkWrite
    \/ BkWritten
    \/ BkCheckCompressErr
    \/ BkCheckErr
    \/ BkClosePipe
    \/ BkReceive
    \/ BkCloseFile
    \/ BkSuccess
    \/ BkDeferred
    \/ BkFail
    \/ GoRead
    \/ GoWrite
    \/ GoAssign
    \/ GoClosePipe
    \/ GoSend

\* ---- what the claims speak of ----

\* The call of a hook did not fail.
HookOk(h) == \A i \in DOMAIN bkLog : bkLog[i].hook = h => bkLog[i].ok

C27_WitnessExists ==
    /\ bkPc = "returned"
    /\ bkResult = "Backup already exists"
    /\ bkFs.row /\ bkFs.file

\* C28: backupCreate does not return nil unless the goroutine has written
\* the whole tarball: a failure of the goroutine, at any point of the
\* stream, makes backupCreate return an error.
C28_WriterFailureReported ==
    (bkPc \in {"deferred", "Fail", "returned"} /\ bkResult = NoError) => bkFs.complete

\* C36: when backupCreate has returned, on whatever path, the goroutine that
\* writes the tarball is not left waiting: neither reading the pipe nor
\* sending its result with no one to receive it.
C36_WriterEnds ==
    bkPc = "returned" => ~(bkGo = "sending" \/ (bkGo = "read" /\ ~bkPipe.closed))

(***************************************************************************)
(* createFromBackup: the handler and the run                               *)
(*                                                                         *)
(* The reverter of the handler holds the closing of the backup file; the   *)
(* run works on a clone of it, to which it adds the revert hook of the     *)
(* storage pool and the deletion of the instance.                          *)
(***************************************************************************)

\* The deletion of the instance added below the hooks there are.
WithInstanceDeleteFirst(reverter) == <<"inst.Delete">> \o reverter

\* runReverter.Add(func() { _ = inst.Delete(true) }) (line 822)
WithInstanceDelete(reverter) == Append(reverter, "inst.Delete")

\* What a hook undoes when its call succeeds.
AfterRestoreHook(st, h) ==
    CASE h = "inst.Delete" -> [st EXCEPT !.rows = FALSE]
      [] h = "revertHook" -> [st EXCEPT !.volume = FALSE]
      [] h = "backupFile.Close" -> [st EXCEPT !.open = FALSE]
      [] OTHER -> st

RestoreIdle ==
    /\ rsInput = [postHook |-> FALSE, squashfs |-> FALSE, renamed |-> FALSE]
    /\ rsPc = "idle"
    /\ rsReverters = [handler |-> << >>, run |-> << >>]
    /\ rsState = [open |-> FALSE, volume |-> FALSE, rows |-> FALSE]
    /\ rsLog = << >>
    /\ rsResult = [response |-> "", err |-> AvPending]

\* A backup that is a squashfs or a tarball, restored under its name or
\* another, on a pool whose CreateInstanceFromBackup returns a post hook or
\* none.
RestoreStart ==
    /\ rsInput \in [postHook : BOOLEAN, squashfs : BOOLEAN, renamed : BOOLEAN]
    /\ rsPc = "CreateTemp"
    /\ rsReverters = [handler |-> << >>, run |-> << >>]
    /\ rsState = [open |-> FALSE, volume |-> FALSE, rows |-> FALSE]
    /\ rsLog = << >>
    /\ rsResult = [response |-> "", err |-> AvPending]

RsHandlerError(code) ==
    /\ rsPc' = "handlerFail"
    /\ rsResult' = [rsResult EXCEPT !.response = code]

RsRunError(err) ==
    /\ rsPc' = "runFail"
    /\ rsResult' = [rsResult EXCEPT !.err = err]

\* The temporary file is created and its closing added (lines 636-646).
RsCreateTemp ==
    /\ rsPc = "CreateTemp"
    /\ \/ /\ RsHandlerError("InternalError")
          /\ UNCHANGED <<rsReverters, rsState>>
       \/ /\ rsState' = [rsState EXCEPT !.open = TRUE]
          /\ rsReverters' = [rsReverters EXCEPT !.handler = <<"backupFile.Close">>]
          /\ rsPc' = "GetInfo"
          /\ UNCHANGED rsResult
    /\ UNCHANGED <<rsInput, rsLog>>
    /\ UNCHANGED <<firstVars, snapVars, rebuildVars, aclVars, restoreRest>>

\* The data is stored, decompressed if a squashfs, and its info read and
\* checked; the reverter is cloned (lines 648-783).
RsGetInfo ==
    /\ rsPc = "GetInfo"
    /\ \/ /\ \E code \in {"InternalError", "BadRequest", "SmartError"} :
               RsHandlerError(code)
          /\ UNCHANGED rsReverters
       \/ /\ rsReverters' = [rsReverters EXCEPT !.run = Clone(rsReverters.handler)]
          /\ rsPc' = "OperationCreate"
          /\ UNCHANGED rsResult
    /\ UNCHANGED <<rsInput, rsState, rsLog>>
    /\ UNCHANGED <<firstVars, snapVars, rebuildVars, aclVars, restoreRest>>

\* The operation is created and the handler returns it (lines 841-848).
RsOperationCreate ==
    /\ rsPc = "OperationCreate"
    /\ \/ /\ RsHandlerError("InternalError")
          /\ UNCHANGED rsReverters
       \/ /\ rsReverters' = [rsReverters EXCEPT !.handler = << >>]
          /\ rsPc' = "LoadByName"
          /\ rsResult' = [rsResult EXCEPT !.response = "Operation"]
    /\ UNCHANGED <<rsInput, rsState, rsLog>>
    /\ UNCHANGED <<firstVars, snapVars, rebuildVars, aclVars, restoreRest>>

\* A reverter fails: its hooks run last to first, the error of the call of
\* a hook is dropped.
RsFail ==
    /\ rsPc \in {"handlerFail", "runFail"}
    /\ LET which == IF rsPc = "handlerFail" THEN "handler" ELSE "run"
           hooks == rsReverters[which]
       IN  IF hooks = << >>
               THEN /\ rsPc' = IF which = "handler" THEN "returned" ELSE "finished"
                    /\ rsState' = IF which = "run" THEN [rsState EXCEPT !.open = FALSE]
                                  ELSE rsState
                    /\ UNCHANGED <<rsReverters, rsLog>>
               ELSE /\ rsReverters' = [rsReverters EXCEPT
                                          ![which] = SubSeq(hooks, 1, Len(hooks) - 1)]
                    /\ \E ok \in BOOLEAN :
                         /\ ok \/ hooks[Len(hooks)] = "inst.Delete"
                         /\ rsState' = IF ok THEN AfterRestoreHook(rsState, hooks[Len(hooks)])
                                       ELSE rsState
                         /\ rsLog' = Append(rsLog, [call |-> hooks[Len(hooks)], ok |-> ok,
                                                    rows |-> rsState.rows])
                    /\ UNCHANGED rsPc
    /\ UNCHANGED <<rsInput, rsResult>>
    /\ UNCHANGED <<firstVars, snapVars, rebuildVars, aclVars, restoreRest>>

\* The run: the pool is loaded and the backup unpacked onto it; the revert
\* hook returned is added (lines 789-809).
RsCreateInstanceFromBackup ==
    /\ rsPc = "LoadByName"
    /\ \/ /\ \E err \in {"LoadByName", "Optimized backup storage driver differs",
                         "Create instance from backup"} : RsRunError(err)
          /\ UNCHANGED <<rsReverters, rsState>>
       \/ /\ rsState' = [rsState EXCEPT !.volume = TRUE]
          /\ rsReverters' = [rsReverters EXCEPT !.run = Append(@, "revertHook")]
          /\ rsPc' = "internalImportFromBackup"
          /\ UNCHANGED rsResult
    /\ UNCHANGED <<rsInput, rsLog>>
    /\ UNCHANGED <<firstVars, snapVars, rebuildVars, aclVars, restoreRest>>

\* The run: the instance is imported into the database (lines 811-814).
RsImport ==
    /\ rsPc = "internalImportFromBackup"
    /\ \/ /\ RsRunError("Failed importing backup")
          /\ UNCHANGED rsState
       \/ /\ rsState' = [rsState EXCEPT !.rows = TRUE]
          /\ rsPc' = "LoadByProjectAndName"
          /\ UNCHANGED rsResult
    /\ UNCHANGED <<rsInput, rsReverters, rsLog>>
    /\ UNCHANGED <<firstVars, snapVars, rebuildVars, aclVars, restoreRest>>

\* The run: the instance is loaded and its deletion added (lines 816-822).
RsLoad ==
    /\ rsPc = "LoadByProjectAndName"
    /\ \/ /\ RsRunError("Failed loading instance")
          /\ UNCHANGED rsReverters
       \/ /\ rsReverters' = [rsReverters EXCEPT !.run = WithInstanceDelete(@)]
          /\ rsPc' = "postHook"
          /\ UNCHANGED rsResult
    /\ UNCHANGED <<rsInput, rsState, rsLog>>
    /\ UNCHANGED <<firstVars, snapVars, rebuildVars, aclVars, restoreRest>>

\* The run: the post hook, if there is one (lines 826-831).
RsPostHook ==
    /\ rsPc = "postHook"
    /\ IF rsInput.postHook
           THEN \E ok \in BOOLEAN :
                  /\ rsLog' = Append(rsLog, [call |-> "postHook", ok |-> ok,
                                             rows |-> rsState.rows])
                  /\ IF ok THEN rsPc' = "Success" /\ UNCHANGED rsResult
                     ELSE RsRunError("Post hook failed")
           ELSE /\ rsPc' = "Success"
                /\ UNCHANGED <<rsLog, rsResult>>
    /\ UNCHANGED <<rsInput, rsReverters, rsState>>
    /\ UNCHANGED <<firstVars, snapVars, rebuildVars, aclVars, restoreRest>>

\* The run: runReverter.Success() and instanceCreateFinish, whose request
\* has no start (lines 833-835).
RsSuccess ==
    /\ rsPc = "Success"
    /\ rsReverters' = [rsReverters EXCEPT !.run = << >>]
    /\ rsPc' = "runFail"
    /\ rsResult' = [rsResult EXCEPT !.err = NoError]
    /\ UNCHANGED <<rsInput, rsState, rsLog>>
    /\ UNCHANGED <<firstVars, snapVars, rebuildVars, aclVars, restoreRest>>

NextRestore ==
    \/ RsCreateTemp
    \/ RsGetInfo
    \/ RsOperationCreate
    \/ RsFail
    \/ RsCreateInstanceFromBackup
    \/ RsImport
    \/ RsLoad
    \/ RsPostHook
    \/ RsSuccess

\* ---- what the claim speaks of ----

\* The places of a call in the log.
RsCalls(call) == {i \in DOMAIN rsLog : rsLog[i].call = call}

C29_WitnessSuccess ==
    /\ rsPc = "finished"
    /\ rsResult.err = NoError
    /\ rsLog = <<[call |-> "postHook", ok |-> TRUE, rows |-> TRUE]>>

(***************************************************************************)
(* common.balanceNUMANodes                                                 *)
(*                                                                         *)
(* Two instances with limits.cpu.nodes=balanced are started on a host;     *)
(* each start calls balanceNUMANodes once.  A third instance is pinned by  *)
(* hand, or not at all.                                                    *)
(***************************************************************************)

\* The NUMA nodes of the host are at most this many.
MaxNumaNodes == 2

\* cpu.Total is at most this.
MaxCpuTotal == 4

\* limits.cpu, when it is a count, is at most this.
MaxLimitsCpu == 5

BalancedInstances == {"inst1", "inst2"}

PinnedInstance == "inst3"

NoInstance == ""

DecimalDigits == <<"0", "1", "2", "3", "4", "5", "6", "7", "8", "9">>

RECURSIVE FormatUint(_)
\* strconv.FormatUint(n, 10)
FormatUint(n) ==
    IF n < 10 THEN <<DecimalDigits[n + 1]>>
    ELSE FormatUint(n \div 10) \o <<DecimalDigits[(n % 10) + 1]>>

RECURSIVE ParseDecimal(_, _)
\* The number the digits stand for, after those read so far.
ParseDecimal(s, acc) ==
    IF s = << >> THEN acc
    ELSE ParseDecimal(Tail(s),
                      10 * acc + (CHOOSE d \in 0..9 : DecimalDigits[d + 1] = Head(s)))

IsDecimal(s) ==
    /\ s # << >>
    /\ \A i \in 1..Len(s) : \E d \in 0..9 : DecimalDigits[d + 1] = s[i]

\* resources.ParseNumaNodeSet(text): the nodes of a comma-separated list,
\* or an error; the texts of the model hold no ranges.
ParseNumaNodeSet(text) ==
    LET parts == Split(text, ",")
    IN  IF \A i \in 1..Len(parts) : IsDecimal(parts[i])
            THEN [err |-> FALSE, nodes |-> [i \in 1..Len(parts) |-> ParseDecimal(parts[i], 0)]]
            ELSE [err |-> TRUE, nodes |-> << >>]

\* strconv.Atoi of limits.cpu: a count is a number, a range or a set is not.
Atoi(limitsCpu) ==
    IF limitsCpu.count THEN [err |-> FALSE, n |-> limitsCpu.n]
    ELSE [err |-> TRUE, n |-> 0]

\* The values of limits.cpu: a count, or a text that is no count.
LimitsCpuValues ==
    {[count |-> TRUE, n |-> n] : n \in 0..MaxLimitsCpu} \cup {[count |-> FALSE, n |-> 0]}

\* The capacity of a slice grown from nothing by appending n elements.
RECURSIVE CapacityFrom(_, _)
CapacityFrom(n, c) == IF c >= n THEN c ELSE CapacityFrom(n, 2 * c)

Capacity(n) == IF n = 0 THEN 0 ELSE CapacityFrom(n, 1)

\* nodes[:k]: the first k elements; past the length the zeroes of the
\* backing array; past the capacity a panic.
SliceTo(nodes, k) ==
    IF k <= Len(nodes) THEN [panic |-> FALSE, nodes |-> SubSeq(nodes, 1, k)]
    ELSE IF k <= Capacity(Len(nodes))
        THEN [panic |-> FALSE,
              nodes |-> nodes \o [i \in 1..(k - Len(nodes)) |-> 0]]
    ELSE [panic |-> TRUE, nodes |-> << >>]

\* int(math.Ceil(float64(a) / float64(b))) for a positive b.
CeilDiv(a, b) == (a + b - 1) \div b

\* The NUMA nodes in the order the threads of the topology name them.
NodesOf(cpu) == [i \in 1..cpu.numa |-> i - 1]

RECURSIVE CountNodes(_, _)
\* numaUsage after the nodes of one instance are counted.
CountNodes(usage, nodes) ==
    IF nodes = << >> THEN usage
    ELSE CountNodes([usage EXCEPT ![Head(nodes)] = @ + 1], Tail(nodes))

RECURSIVE UsageOf(_, _, _, _)
\* numaUsage: for each node the number of other instances pinned to it.
UsageOf(insts, todo, self, usage) ==
    IF todo = {} THEN usage
    ELSE LET i == CHOOSE x \in todo : TRUE
             conf == insts[i]
             text == IF conf.cpuNodes = <<"balanced">> THEN conf.volatile
                     ELSE conf.cpuNodes
             set == ParseNumaNodeSet(text)
         IN  IF i = self \/ conf.cpuNodes = << >> \/ set.err
                 THEN UsageOf(insts, todo \ {i}, self, usage)
                 ELSE UsageOf(insts, todo \ {i}, self,
                              CountNodes(usage, [k \in 1..Len(set.nodes) |->
                                  IF set.nodes[k] \in DOMAIN usage THEN set.nodes[k] ELSE 0]))

\* The map starts empty: a node never counted reads as zero.
numaUsage(insts, self) ==
    UsageOf(insts, DOMAIN insts, self, [n \in 0..MaxNumaNodes + 1 |-> 0])

\* The orders slices.SortFunc may leave the nodes in: ascending by usage,
\* equal ones in any order.
SortedByUsage(nodes, usage) ==
    {order \in [1..Len(nodes) -> {nodes[i] : i \in 1..Len(nodes)}] :
        /\ \A i, j \in 1..Len(nodes) : i # j => order[i] # order[j]
        /\ \A i \in 1..(Len(nodes) - 1) : usage[order[i]] <= usage[order[i + 1]]}

\* The text written for the nodes chosen.
NodesText(nodes) == Join([i \in 1..Len(nodes) |-> FormatUint(nodes[i])], ",")

IdleCall == [pc |-> "idle", nodes |-> << >>, usage |-> << >>, result |-> AvPending]

NumaIdle ==
    /\ nmCpu = [total |-> 0, numa |-> 0]
    /\ nmInsts = << >>
    /\ nmMu = NoInstance
    /\ nmCall = << >>

NumaStart ==
    /\ \E numa \in 1..MaxNumaNodes : \E total \in numa..MaxCpuTotal :
         nmCpu = [total |-> total, numa |-> numa]
    /\ \E limits \in [BalancedInstances -> LimitsCpuValues] :
       \E pinned \in {<< >>, <<"0">>, <<"1">>} :
         nmInsts = [i \in BalancedInstances \cup {PinnedInstance} |->
                      IF i = PinnedInstance
                          THEN [limitsCpu |-> [count |-> FALSE, n |-> 0],
                                cpuNodes |-> pinned, volatile |-> << >>]
                          ELSE [limitsCpu |-> limits[i], cpuNodes |-> <<"balanced">>,
                                volatile |-> << >>]]
    /\ nmMu = NoInstance
    /\ nmCall = [i \in BalancedInstances |-> [IdleCall EXCEPT !.pc = "Lock"]]

\* d.VolatileSet: the key is written, or the transaction fails.
NmVolatileSet(i, nodes) ==
    \/ /\ nmInsts' = [nmInsts EXCEPT ![i].volatile = NodesText(nodes)]
       /\ nmCall' = [nmCall EXCEPT ![i].pc = "Unlock", ![i].result = NoError,
                                   ![i].nodes = nodes]
    \/ /\ nmCall' = [nmCall EXCEPT ![i].pc = "Unlock",
                                   ![i].result = "Failed to set volatile config"]
       /\ UNCHANGED nmInsts

\* muNUMA.Lock() (line 1540)
NmLock(i) ==
    /\ nmCall[i].pc = "Lock"
    /\ nmMu = NoInstance
    /\ nmMu' = i
    /\ nmCall' = [nmCall EXCEPT ![i].pc = "GetCPU"]
    /\ UNCHANGED <<nmCpu, nmInsts>>
    /\ UNCHANGED <<firstVars, snapVars, rebuildVars, aclVars, numaRest>>

\* The topology is read and its nodes listed; a host of one node is done
\* (lines 1543-1564).
NmGetCPU(i) ==
    /\ nmCall[i].pc = "GetCPU"
    /\ \/ /\ nmCall' = [nmCall EXCEPT ![i].pc = "Unlock", ![i].result = "GetCPU"]
          /\ UNCHANGED nmInsts
       \/ /\ Len(NodesOf(nmCpu)) = 1
          /\ NmVolatileSet(i, <<NodesOf(nmCpu)[1]>>)
       \/ /\ Len(NodesOf(nmCpu)) # 1
          /\ nmCall' = [nmCall EXCEPT ![i].pc = "LoadNodeAll"]
          /\ UNCHANGED nmInsts
    /\ UNCHANGED <<nmCpu, nmMu>>
    /\ UNCHANGED <<firstVars, snapVars, rebuildVars, aclVars, numaRest>>

\* The local instances are loaded and their nodes counted (lines 1566-1602).
NmLoadNodeAll(i) ==
    /\ nmCall[i].pc = "LoadNodeAll"
    /\ \/ nmCall' = [nmCall EXCEPT ![i].pc = "Unlock", ![i].result = "LoadNodeAll"]
       \/ nmCall' = [nmCall EXCEPT ![i].pc = "Sort", ![i].usage = numaUsage(nmInsts, i)]
    /\ UNCHANGED <<nmCpu, nmInsts, nmMu>>
    /\ UNCHANGED <<firstVars, snapVars, rebuildVars, aclVars, numaRest>>

\* The nodes are sorted by usage, as many as limits.cpu needs are taken and
\* written (lines 1604-1626).
NmSelect(i) ==
    /\ nmCall[i].pc = "Sort"
    /\ \E nodes \in SortedByUsage(NodesOf(nmCpu), nmCall[i].usage) :
         LET cpusPerNumaNode == nmCpu.total \div Len(nodes)
             limitsCPU == Atoi(nmInsts[i].limitsCpu)
         IN  IF ~limitsCPU.err /\ limitsCPU.n > cpusPerNumaNode
                 THEN \E selected \in {SliceTo(nodes, CeilDiv(limitsCPU.n, cpusPerNumaNode))} :
                        IF selected.panic
                            THEN /\ nmCall' = [nmCall EXCEPT ![i].pc = "Unlock",
                                                             ![i].result = "panic"]
                                 /\ UNCHANGED nmInsts
                            ELSE NmVolatileSet(i, selected.nodes)
                 ELSE NmVolatileSet(i, <<nodes[1]>>)
    /\ UNCHANGED <<nmCpu, nmMu>>
    /\ UNCHANGED <<firstVars, snapVars, rebuildVars, aclVars, numaRest>>

\* defer muNUMA.Unlock() (line 1541)
NmUnlock(i) ==
    /\ nmCall[i].pc = "Unlock"
    /\ nmMu' = NoInstance
    /\ nmCall' = [nmCall EXCEPT ![i].pc = "returned"]
    /\ UNCHANGED <<nmCpu, nmInsts>>
    /\ UNCHANGED <<firstVars, snapVars, rebuildVars, aclVars, numaRest>>

NextNuma ==
    \/ \E i \in BalancedInstances : NmLock(i)
    \/ \E i \in BalancedInstances : NmGetCPU(i)
    \/ \E i \in BalancedInstances : NmLoadNodeAll(i)
    \/ \E i \in BalancedInstances : NmSelect(i)
    \/ \E i \in BalancedInstances : NmUnlock(i)

\* ---- what the claim speaks of ----

\* The nodes a call has chosen are k different ones, none used more than
\* one left out.
LeastUsed(chosen, k, nodes, usage) ==
    /\ Len(chosen) = k
    /\ \A a, b \in 1..Len(chosen) : a # b => chosen[a] # chosen[b]
    /\ \A a \in 1..Len(chosen) :
         /\ \E n \in 1..Len(nodes) : nodes[n] = chosen[a]
         /\ \A n \in 1..Len(nodes) :
              (\A b \in 1..Len(chosen) : chosen[b] # nodes[n]) =>
                  usage[chosen[a]] <= usage[nodes[n]]

\* C30: every call of balanceNUMANodes completes, and one that returns no
\* error has written volatile.cpu.nodes: the one node of a host of one; else
\* ceil(limits.cpu / cpus-per-node) nodes of lowest usage among the other
\* instances when limits.cpu exceeds cpus-per-node, else the one least used;
\* while a call counts and chooses, the count is that of the instances as
\* they are, the nodes an earlier call chose among them.
C30_BalanceCompletes ==
    \A i \in DOMAIN nmCall :
        /\ nmCall[i].result # "panic"
        /\ nmCall[i].pc = "Sort" => nmCall[i].usage = numaUsage(nmInsts, i)
        /\ nmCall[i].result = NoError =>
              /\ nmInsts[i].volatile = NodesText(nmCall[i].nodes)
              /\ LET nodes == NodesOf(nmCpu)
                     cpn == nmCpu.total \div Len(nodes)
                     limit == nmInsts[i].limitsCpu
                 IN  IF Len(nodes) = 1 THEN nmCall[i].nodes = <<nodes[1]>>
                     ELSE LeastUsed(nmCall[i].nodes,
                                    IF limit.count /\ limit.n > cpn
                                        THEN CeilDiv(limit.n, cpn) ELSE 1,
                                    nodes, nmCall[i].usage)

\* The rest of the claim, for the calls that do not panic.
NmRestHolds ==
    \A i \in DOMAIN nmCall :
        /\ nmCall[i].pc = "Sort" => nmCall[i].usage = numaUsage(nmInsts, i)
        /\ nmCall[i].result = NoError =>
              /\ nmInsts[i].volatile = NodesText(nmCall[i].nodes)
              /\ ParseNumaNodeSet(nmInsts[i].volatile).nodes = nmCall[i].nodes

(***************************************************************************)
(* common.needsNewInstanceID                                               *)
(***************************************************************************)

\* The keys whose change asks for a new instance-id (lines 1136-1143).
CloudInitKeys ==
    <<"cloud-init.vendor-data", "cloud-init.user-data", "cloud-init.network-config",
      "user.vendor-data", "user.user-data", "user.network-config">>

\* The names devices have in the model, and the names NICs are given.
NiDeviceNames == {"eth0", "eth1"}

NiVolatileNames == {"", "veth0", "veth1"}

\* fmt.Sprintf("volatile.%s.name", devName)
VolatileNameKey(devName) == "volatile." \o devName \o ".name"

\* The name getNICNames appends for a device (lines 1158-1170).
NICName(lc, devs, devName) ==
    IF devs[devName].name # "" THEN devs[devName].name
    ELSE IF lc[VolatileNameKey(devName)] # "" THEN devs[devName].name
    ELSE devName

\* getNICNames(devs): the names of the NICs, as a set since only membership
\* is asked of them (lines 1151-1174).
getNICNames(lc, devs) ==
    {NICName(lc, devs, devName) :
        devName \in {n \in DOMAIN devs : devs[n].type = "nic"}}

\* needsNewInstanceID(changedConfig, oldExpandedDevices) (lines 1134-1191)
needsNewInstanceID(lc, expandedDevices, changedConfig, oldExpandedDevices) ==
    IF \E k \in 1..Len(CloudInitKeys) :
           \E c \in 1..Len(changedConfig) : changedConfig[c] = CloudInitKeys[k]
        THEN TRUE
    ELSE LET oldNames == getNICNames(lc, oldExpandedDevices)
             newNames == getNICNames(lc, expandedDevices)
         IN  \/ \E entry \in oldNames : entry \notin newNames
             \/ \E entry \in newNames : entry \notin oldNames

\* The devices of the model: some of the names, each a NIC or a disk, with
\* a name property or none.
NiDevices ==
    UNION {[names -> [type : {"nic", "disk"}, name : {"", "lan0"}]] :
              names \in SUBSET NiDeviceNames}

\* The lists of changed keys of the model: none, or one key.
NiChanged ==
    {<< >>, <<"limits.cpu">>} \cup {<<CloudInitKeys[k]>> : k \in 1..Len(CloudInitKeys)}

InstanceIdIdle ==
    /\ niInput = [localConfig |-> << >>, expandedDevices |-> << >>,
                  changedConfig |-> << >>, oldExpandedDevices |-> << >>]
    /\ niResult = AvPending

InstanceIdStart ==
    /\ \E volatile \in [NiDeviceNames -> NiVolatileNames] :
       \E old \in NiDevices : \E new \in NiDevices : \E changed \in NiChanged :
         niInput = [localConfig |-> [k \in {VolatileNameKey(n) : n \in NiDeviceNames} |->
                                        volatile[CHOOSE n \in NiDeviceNames :
                                                     VolatileNameKey(n) = k]],
                    expandedDevices |-> new,
                    changedConfig |-> changed,
                    oldExpandedDevices |-> old]
    /\ niResult = AvPending

\* The call of an Update.
NiNeedsNewInstanceID ==
    /\ niResult = AvPending
    /\ niInput.changedConfig \in NiChanged
    /\ niResult' = IF needsNewInstanceID(niInput.localConfig, niInput.expandedDevices,
                                         niInput.changedConfig, niInput.oldExpandedDevices)
                       THEN "true" ELSE "false"
    /\ UNCHANGED niInput
    /\ UNCHANGED <<firstVars, snapVars, rebuildVars, aclVars, instanceidRest>>

NextInstanceId == NiNeedsNewInstanceID

\* ---- what the claim speaks of ----

\* The interface name of a NIC: the name property, else the volatile name,
\* else the name of the device.
InterfaceName(lc, devs, devName) ==
    IF devs[devName].name # "" THEN devs[devName].name
    ELSE IF lc[VolatileNameKey(devName)] # ""
        THEN lc[VolatileNameKey(devName)]
    ELSE devName

InterfaceNames(lc, devs) ==
    {InterfaceName(lc, devs, devName) :
        devName \in {n \in DOMAIN devs : devs[n].type = "nic"}}

\* C31: needsNewInstanceID returns true when a cloud-init key is among the
\* changed keys or the set of interface names of the NICs (name property,
\* else volatile.<dev>.name, else device name) differs between the old and
\* the new expanded devices, and false otherwise.
C31_NewIdIffChanged ==
    niResult # AvPending =>
        (niResult = "true") <=>
            \/ \E k \in 1..Len(CloudInitKeys) : niInput.changedConfig = <<CloudInitKeys[k]>>
            \/ InterfaceNames(niInput.localConfig, niInput.oldExpandedDevices)
                   # InterfaceNames(niInput.localConfig, niInput.expandedDevices)

(***************************************************************************)
(* common.VolatileSet over the local and the expanded config               *)
(*                                                                         *)
(* The instance holds d.localConfig and d.expandedConfig, the database the *)
(* rows of the local config.  The profiles hold no volatile key.           *)
(***************************************************************************)

\* The calls of VolatileSet made on the instance are at most this many.
MaxVolatileSets == 2

VsVolatileKeys == {<<"volatile", ".", "uuid">>, <<"volatile", ".", "cpu", ".", "nodes">>}

VsOtherKeys == {<<"user", ".", "x">>, <<"volatilex">>}

\* The expanded config of the profiles overlaid with the local config.
Merge(profiles, config) ==
    [k \in DOMAIN profiles \cup DOMAIN config |->
        IF k \in DOMAIN config THEN config[k] ELSE profiles[k]]

\* The change sets of the model: some keys, each with a value or the empty
\* value.
VsChanges ==
    UNION {[keys -> {"", "n"}] : keys \in SUBSET (VsVolatileKeys \cup {<<"volatilex">>})}

VsNoCall == [called |-> FALSE, changes |-> << >>, dbOk |-> TRUE, err |-> FALSE,
             local |-> << >>, expanded |-> << >>, db |-> << >>]

VolSetIdle ==
    /\ vsProfiles = << >>
    /\ vsLocal = << >>
    /\ vsExpanded = << >>
    /\ vsDb = << >>
    /\ vsPersistDisable = FALSE
    /\ vsCalls = 0
    /\ vsLast = VsNoCall

VolSetStart ==
    /\ \E keys \in SUBSET VsOtherKeys : vsProfiles = [k \in keys |-> "p"]
    /\ \E keys \in SUBSET (VsVolatileKeys \cup {<<"user", ".", "x">>}) :
         vsLocal = [k \in keys |-> "o"]
    /\ vsExpanded = Merge(vsProfiles, vsLocal)
    /\ vsDb = vsLocal
    /\ vsPersistDisable \in BOOLEAN
    /\ vsCalls = 0
    /\ vsLast = VsNoCall

\* d.VolatileSet(changes) (lines 414-451): the quick check, the update of
\* the database unless persisting is disabled, the change of both maps.
\* The transaction changes the rows as the maps are changed, or nothing.
VsVolatileSet ==
    /\ vsCalls < MaxVolatileSets
    /\ \E changes \in VsChanges : \E dbOk \in BOOLEAN :
         \E local \in {VolatileSet(vsLocal, changes, ~vsPersistDisable, dbOk)} :
         \E expanded \in {VolatileSet(vsExpanded, changes, ~vsPersistDisable, dbOk)} :
         \E db \in {VolatileSet(vsDb, changes, ~vsPersistDisable, dbOk)} :
           /\ (dbOk \/ ~vsPersistDisable)
           /\ vsLocal' = local.config
           /\ vsExpanded' = expanded.config
           /\ vsDb' = IF vsPersistDisable THEN vsDb ELSE db.config
           /\ vsLast' = [called |-> TRUE, changes |-> changes, dbOk |-> dbOk,
                         err |-> local.err,
                         local |-> vsLocal, expanded |-> vsExpanded, db |-> vsDb]
    /\ vsCalls' = vsCalls + 1
    /\ UNCHANGED <<vsProfiles, vsPersistDisable>>
    /\ UNCHANGED <<firstVars, snapVars, rebuildVars, aclVars, volsetRest>>

NextVolSet == VsVolatileSet

\* ---- what the claim speaks of ----

\* A map after the changes: the keys of empty value gone, the others set,
\* the rest as before.
VsChanged(before, after, changes) ==
    /\ \A k \in DOMAIN changes :
         IF changes[k] = "" THEN k \notin DOMAIN after
         ELSE k \in DOMAIN after /\ after[k] = changes[k]
    /\ \A k \in (DOMAIN before \cup DOMAIN after) \ DOMAIN changes :
         k \in DOMAIN before /\ k \in DOMAIN after /\ after[k] = before[k]

\* C32: a call of VolatileSet with a key that lacks the prefix "volatile."
\* or whose database write fails returns an error and leaves database,
\* localConfig and expandedConfig as they were; any other call deletes the
\* keys of empty value from both maps and sets the others in both; and after
\* any calls expandedConfig is the merge of the profiles and localConfig.
C32_VolatileSetKeepsMerge ==
    /\ vsExpanded = Merge(vsProfiles, vsLocal)
    /\ vsLast.called =>
         IF \/ \E k \in DOMAIN vsLast.changes : ~HasPrefix(k, ConfigVolatilePrefix)
            \/ (~vsPersistDisable /\ ~vsLast.dbOk)
             THEN /\ vsLast.err
                  /\ vsLocal = vsLast.local
                  /\ vsExpanded = vsLast.expanded
                  /\ vsDb = vsLast.db
             ELSE /\ ~vsLast.err
                  /\ VsChanged(vsLast.local, vsLocal, vsLast.changes)
                  /\ VsChanged(vsLast.expanded, vsExpanded, vsLast.changes)

\* A call has deleted one key and set another in both maps.
C32_Witness ==
    /\ vsLast.called /\ ~vsLast.err
    /\ \E k \in DOMAIN vsLast.changes :
         vsLast.changes[k] = "" /\ k \in DOMAIN vsLast.expanded /\ k \notin DOMAIN vsExpanded
    /\ \E k \in DOMAIN vsLast.changes :
         vsLast.changes[k] = "n" /\ vsExpanded[k] = "n" /\ vsLocal[k] = "n"
    /\ DOMAIN vsProfiles # {}

\* A call was refused for a key without the prefix.
C32_WitnessRefused ==
    /\ vsLast.called /\ vsLast.err
    /\ <<"volatilex">> \in DOMAIN vsLast.changes
    /\ vsLocal = vsLast.local /\ vsLocal # << >>

(***************************************************************************)
(* common.devicesAdd                                                       *)
(***************************************************************************)

\* The configs a device of the instance may have: device 3 is a disk, the
\* others NICs, device 2 possibly on a network that cannot be loaded.
DaConfigs(d) ==
    IF d = 3 THEN {DevDisk}
    ELSE IF d = 2 THEN {DevNicBridged, DevNicNoNetwork}
    ELSE {DevNicBridged}

\* What deviceLoad returns for an entry: a device, ErrUnsupportedDevType, a
\* conflict (HTTP 409), or another validation error.
DaLoadOutcomes == {"ok", "unsupported", "conflict", "invalid"}

\* The variant that skips unsupported devices only.
SkipsAddUnsupportedOnly(load) == load = "unsupported"

\* The errors of deviceLoad after which the loop goes on to the next entry
\* (lines 1284-1297).
SkipsAdd(load) == load \in {"unsupported", "conflict"}

DevAddIdle ==
    /\ daInput = [devices |-> {}, running |-> FALSE]
    /\ daPc = "idle"
    /\ daQueue = << >>
    /\ daReverter = << >>
    /\ daCleanup = << >>
    /\ daAdded = {}
    /\ daConfig = << >>
    /\ daLog = << >>
    /\ daResult = AvPending

\* devicesAdd is called on an instance with some expanded devices, none of
\* them added yet; each has volatile keys.
DevAddStart ==
    /\ \E present \in SUBSET DevIds : \E running \in BOOLEAN :
       \E config \in [present -> UNION {DaConfigs(d) : d \in DevIds}] :
         /\ \A d \in present : config[d] \in DaConfigs(d)
         /\ daInput = [devices |-> {[name |-> d, config |-> config[d]] : d \in present},
                       running |-> running]
         /\ daConfig = ConfigOf(present)
    /\ daPc = "start"
    /\ daQueue = << >>
    /\ daReverter = << >>
    /\ daCleanup = << >>
    /\ daAdded = {}
    /\ daLog = << >>
    /\ daResult = AvPending

DaEvent(op, dev, outcome) == [op |-> op, dev |-> dev, outcome |-> outcome]

\* reverter := revert.New(); the entries in sorted order (lines 1278-1281).
DaBegin ==
    /\ daPc = "start"
    /\ daQueue' = Sorted(daInput.devices)
    /\ daPc' = "loop"
    /\ UNCHANGED <<daInput, daReverter, daCleanup, daAdded, daConfig, daLog, daResult>>
    /\ UNCHANGED <<firstVars, snapVars, rebuildVars, aclVars, devaddRest>>

\* One entry of the loop (lines 1281-1312): the device is loaded; it is
\* skipped, or its validation failed and its volatile keys are reset, or it
\* is added and its removal registered.
DaEntry ==
    /\ daPc = "loop"
    /\ daQueue # << >>
    /\ LET entry == Head(daQueue)
       IN  \E load \in DaLoadOutcomes :
             IF SkipsAdd(load)
                 THEN /\ daLog' = Append(daLog, DaEvent("deviceLoad", entry.name, load))
                      /\ daQueue' = Tail(daQueue)
                      /\ UNCHANGED <<daPc, daReverter, daAdded, daConfig, daResult>>
             ELSE IF load # "ok"
                 THEN \E dbOk \in BOOLEAN :
                      \E reset \in {DeviceVolatileReset(daConfig, DevNameOf(entry.name),
                                                        entry.config, NilDevice, dbOk)} :
                        /\ daConfig' = reset.config
                        /\ daLog' = daLog \o
                               <<DaEvent("deviceLoad", entry.name, load),
                                 DaEvent("deviceVolatileReset", entry.name,
                                         IF reset.err THEN "fail" ELSE "ok")>>
                        /\ daResult' = "Failed add validation for device"
                        /\ daPc' = "fail"
                        /\ UNCHANGED <<daQueue, daReverter, daAdded>>
             ELSE \E add \in {"ok", "fail"} :
                    /\ daLog' = daLog \o <<DaEvent("deviceLoad", entry.name, load),
                                           DaEvent("deviceAdd", entry.name, add)>>
                    /\ IF add = "ok"
                           THEN /\ daAdded' = daAdded \cup {entry.name}
                                /\ daReverter' = Append(daReverter, entry.name)
                                /\ daQueue' = Tail(daQueue)
                                /\ UNCHANGED <<daPc, daResult>>
                           ELSE /\ daResult' = "Failed to add device"
                                /\ daPc' = "fail"
                                /\ UNCHANGED <<daQueue, daReverter, daAdded>>
                    /\ UNCHANGED daConfig
    /\ UNCHANGED <<daInput, daCleanup>>
    /\ UNCHANGED <<firstVars, snapVars, rebuildVars, aclVars, devaddRest>>

\* cleanup := reverter.Clone().Fail; reverter.Success(); return cleanup, nil
\* (lines 1314-1317).
DaSuccess ==
    /\ daPc = "loop"
    /\ daQueue = << >>
    /\ daCleanup' = Clone(daReverter)
    /\ daReverter' = << >>
    /\ daResult' = NoError
    /\ daPc' = "returned"
    /\ UNCHANGED <<daInput, daQueue, daAdded, daConfig, daLog>>
    /\ UNCHANGED <<firstVars, snapVars, rebuildVars, aclVars, devaddRest>>

\* A hook runs, the last added first: deviceRemove, whose error is dropped
\* (line 1311).  The deferred reverter.Fail() runs them on an error return,
\* the caller of the cleanup hook after a success.
DaRemove ==
    /\ daPc \in {"fail", "cleanup"}
    /\ LET hooks == IF daPc = "fail" THEN daReverter ELSE daCleanup
       IN  /\ hooks # << >>
           /\ \E ok \in BOOLEAN :
                /\ daLog' = Append(daLog, DaEvent("deviceRemove", hooks[Len(hooks)],
                                                  IF ok THEN "ok" ELSE "fail"))
                /\ daAdded' = IF ok THEN daAdded \ {hooks[Len(hooks)]} ELSE daAdded
           /\ IF daPc = "fail"
                  THEN /\ daReverter' = SubSeq(hooks, 1, Len(hooks) - 1)
                       /\ UNCHANGED daCleanup
                  ELSE /\ daCleanup' = SubSeq(hooks, 1, Len(hooks) - 1)
                       /\ UNCHANGED daReverter
    /\ UNCHANGED <<daInput, daPc, daQueue, daConfig, daResult>>
    /\ UNCHANGED <<firstVars, snapVars, rebuildVars, aclVars, devaddRest>>

\* The hooks have run: the call returns its error, or the cleanup is over.
DaReverted ==
    /\ \/ daPc = "fail" /\ daReverter = << >> /\ daPc' = "returned"
       \/ daPc = "cleanup" /\ daCleanup = << >> /\ daPc' = "cleaned"
    /\ UNCHANGED <<daInput, daQueue, daReverter, daCleanup, daAdded, daConfig, daLog,
                   daResult>>
    /\ UNCHANGED <<firstVars, snapVars, rebuildVars, aclVars, devaddRest>>

\* The caller invokes the cleanup hook it was returned.
DaCleanup ==
    /\ daPc = "returned"
    /\ daResult = NoError
    /\ daPc' = "cleanup"
    /\ UNCHANGED <<daInput, daQueue, daReverter, daCleanup, daAdded, daConfig, daLog,
                   daResult>>
    /\ UNCHANGED <<firstVars, snapVars, rebuildVars, aclVars, devaddRest>>

NextDevAdd ==
    \/ DaBegin
    \/ DaEntry
    \/ DaSuccess
    \/ DaRemove
    \/ DaReverted
    \/ DaCleanup

\* ---- what the claim speaks of ----

\* The devices of the events of an operation, in the order of the log.
RECURSIVE DaDevicesOf(_, _, _)
DaDevicesOf(log, op, outcomes) ==
    IF log = << >> THEN << >>
    ELSE (IF Head(log).op = op /\ Head(log).outcome \in outcomes
              THEN <<Head(log).dev>> ELSE << >>) \o DaDevicesOf(Tail(log), op, outcomes)

RECURSIVE DaReverse(_)
DaReverse(s) == IF s = << >> THEN << >> ELSE DaReverse(Tail(s)) \o <<Head(s)>>

DaEntryOf(d) == CHOOSE e \in daInput.devices : e.name = d

C34_WitnessCleanup ==
    /\ daPc = "cleaned"
    /\ \E i \in 1..Len(daLog) : daLog[i].op = "deviceLoad" /\ daLog[i].outcome = "conflict"
    /\ Len(DaDevicesOf(daLog, "deviceRemove", {"ok"})) = 2

(***************************************************************************)
(* internalImportRootDevicePopulate                                        *)
(*                                                                         *)
(* Devices are maps from a device name to a config, a config a map from a  *)
(* key to a value.                                                         *)
(***************************************************************************)

\* The names the loop tries for the new root disk after "root" (line 1079).
RootNameTries == 100

RdPools == {"pool1", "pool2"}

RdDeviceNames == {"root", "rootfs"}

RdRootOn(pool) == [type |-> "disk", path |-> "/", pool |-> pool]

RdRootSized(pool) == [type |-> "disk", path |-> "/", pool |-> pool, size |-> "1GiB"]

RdDataDisk == [type |-> "disk", path |-> "/mnt", pool |-> "pool1", source |-> "data"]

RdConfigs == {RdRootOn("pool1"), RdRootOn("pool2"), RdRootSized("pool2"), RdDataDisk}

\* The device maps of the model.
RdDevices == UNION {[names -> RdConfigs] : names \in SUBSET RdDeviceNames}

\* dev[k] of a Go map of strings.
RdGet(dev, k) == IF k \in DOMAIN dev THEN dev[k] ELSE ""

\* A root disk: type=disk, path=/.
IsRootDiskDevice(dev) == RdGet(dev, "type") = "disk" /\ RdGet(dev, "path") = "/"

\* internalInstance.GetRootDiskDevice(devices): the one root disk, its name
\* empty when there is none or more than one.
GetRootDiskDevice(devices) ==
    LET roots == {n \in DOMAIN devices : IsRootDiskDevice(devices[n])}
    IN  IF Cardinality(roots) = 1
            THEN [name |-> CHOOSE n \in roots : TRUE,
                  config |-> devices[CHOOSE n \in roots : TRUE]]
            ELSE [name |-> "", config |-> << >>]

RECURSIVE ExpandInstanceDevices(_, _)
\* db.ExpandInstanceDevices(localDevices, profiles): the devices of the
\* profiles in order, a later one of a name replacing an earlier one, the
\* local ones last.
ExpandInstanceDevices(devices, profiles) ==
    IF profiles = << >> THEN devices
    ELSE LET last == profiles[Len(profiles)]
             below == ExpandInstanceDevices(last, SubSeq(profiles, 1, Len(profiles) - 1))
         IN  [n \in DOMAIN below \cup DOMAIN devices |->
                 IF n \in DOMAIN devices THEN devices[n] ELSE below[n]]

RECURSIVE RootDevName(_, _, _)
\* The name for the new root disk: "root", else the first free of "root0",
\* "root1", ...; the name reached when the loop ends is not looked up
\* (lines 1078-1086).
RootDevName(devices, name, i) ==
    IF i >= RootNameTries THEN name
    ELSE IF name \notin DOMAIN devices THEN name
    ELSE RootDevName(devices, "root" \o ToString(i), i + 1)

\* Whether a local root disk is to be added (lines 1013-1050).
addLocalDisk(instancePoolName, expandedRoot, profileExpandedRoot) ==
    IF profileExpandedRoot.name = "" THEN TRUE
    ELSE IF RdGet(profileExpandedRoot.config, "pool") # instancePoolName THEN TRUE
    ELSE /\ expandedRoot.name # ""
         /\ \E k \in (DOMAIN expandedRoot.config \cup DOMAIN profileExpandedRoot.config)
                      \ {"pool"} :
               RdGet(expandedRoot.config, k) # RdGet(profileExpandedRoot.config, k)

\* The new root disk: in the pool of the instance, with what else the old
\* expanded root disk had (lines 1054-1068).
RootDev(instancePoolName, expandedRoot) ==
    LET rootDev == RdRootOn(instancePoolName)
    IN  IF expandedRoot.name = "" THEN rootDev
        ELSE [k \in DOMAIN rootDev \cup DOMAIN expandedRoot.config |->
                 IF k \in DOMAIN rootDev THEN rootDev[k] ELSE expandedRoot.config[k]]

\* internalImportRootDevicePopulate: the local devices after the call.
internalImportRootDevicePopulate(instancePoolName, localDevices, expandedDevices, profiles) ==
    LET root == GetRootDiskDevice(localDevices)
        expandedRoot == GetRootDiskDevice(expandedDevices)
        profileExpandedRoot ==
            GetRootDiskDevice(ExpandInstanceDevices(localDevices, profiles))
    IN  IF root.name # ""
            THEN [localDevices EXCEPT ![root.name] =
                     [k \in DOMAIN @ \cup {"pool"} |->
                         IF k = "pool" THEN instancePoolName ELSE @[k]]]
        ELSE IF addLocalDisk(instancePoolName, expandedRoot, profileExpandedRoot)
            THEN LET name == RootDevName(localDevices, "root", 0)
                 IN  [n \in DOMAIN localDevices \cup {name} |->
                         IF n = name THEN RootDev(instancePoolName, expandedRoot)
                         ELSE localDevices[n]]
        ELSE localDevices

RootDevIdle ==
    /\ rdInput = [instancePoolName |-> "", localDevices |-> << >>,
                  expandedDevices |-> << >>, profiles |-> << >>]
    /\ rdLocalDevices = << >>
    /\ rdPc = "idle"

\* The import of an instance found on a pool, with the local and the
\* expanded devices of its backup.yaml and the profiles there are now.
RootDevStart ==
    /\ \E pool \in RdPools : \E local \in RdDevices : \E expanded \in RdDevices :
       \E profile \in RdDevices :
         rdInput = [instancePoolName |-> pool, localDevices |-> local,
                    expandedDevices |-> expanded, profiles |-> <<profile>>]
    /\ rdLocalDevices = rdInput.localDevices
    /\ rdPc = "call"

\* The call: the local devices are changed in place.
RdPopulate ==
    /\ rdPc = "call"
    /\ rdInput.instancePoolName \in RdPools
    /\ rdLocalDevices' =
          internalImportRootDevicePopulate(rdInput.instancePoolName, rdLocalDevices,
                                           rdInput.expandedDevices, rdInput.profiles)
    /\ rdPc' = "returned"
    /\ UNCHANGED rdInput
    /\ UNCHANGED <<firstVars, snapVars, rebuildVars, aclVars, rootdevRest>>

NextRootDev == RdPopulate

\* ---- what the claim speaks of ----

RdRoots(devices) == {n \in DOMAIN devices : IsRootDiskDevice(devices[n])}

\* The profiles provide a root disk in the pool whose other properties are
\* those of the root disk of the backup's expanded devices.
RdProfilesMatch ==
    LET profileRoot == GetRootDiskDevice(ExpandInstanceDevices(<< >>, rdInput.profiles))
        expandedRoot == GetRootDiskDevice(rdInput.expandedDevices)
    IN  /\ profileRoot.name # ""
        /\ profileRoot.config.pool = rdInput.instancePoolName
        /\ expandedRoot.name # ""
        /\ \A k \in (DOMAIN expandedRoot.config \cup DOMAIN profileRoot.config) \ {"pool"} :
              RdGet(expandedRoot.config, k) = RdGet(profileRoot.config, k)

\* C35: after internalImportRootDevicePopulate the local devices expanded
\* over the profiles hold exactly one root disk, in the pool the instance
\* was found on; no local device is added when the profiles provide a root
\* disk in that pool that matches the root disk of the backup's expanded
\* devices; and a root disk that is added replaces no local device.
C35_OneRootDisk ==
    rdPc = "returned" =>
        LET expanded == ExpandInstanceDevices(rdLocalDevices, rdInput.profiles)
        IN  /\ Cardinality(RdRoots(expanded)) = 1
            /\ \A n \in RdRoots(expanded) : expanded[n].pool = rdInput.instancePoolName
            /\ (RdRoots(rdInput.localDevices) = {} /\ RdProfilesMatch) =>
                  DOMAIN rdLocalDevices = DOMAIN rdInput.localDevices
            /\ \A n \in DOMAIN rdInput.localDevices :
                  RdRoots(rdInput.localDevices) = {} =>
                      rdLocalDevices[n] = rdInput.localDevices[n]

(***************************************************************************)
(* The operation lock of CreateInternal in snapshotCommon and              *)
(* internalImportFromBackup                                                *)
(*                                                                         *)
(* Both functions create a record with instance.CreateInternal, which      *)
(* returns an operation lock, and defer the completion of the lock with    *)
(* `defer op.Done(err)`.                                                   *)
(***************************************************************************)

\* The snapshots of the backup config that are imported are at most this many.
MaxImportSnapshots == 2

\* The value Done is called with when the deferred call runs: the arguments
\* of a deferred call are evaluated when the defer statement is executed.
DeferredArgument(errAtDefer, errAtReturn) == errAtDefer

\* A step of one of the functions: its name and the lock the record it
\* creates comes with, if it creates one.
OdStepOf(name, lock) == [name |-> name, lock |-> lock]

RECURSIVE OdSnapshotSteps(_, _)
\* The steps of the loop over the snapshots of the backup config, from
\* snapshot i to snapshot n.
OdSnapshotSteps(i, n) ==
    IF i > n THEN << >>
    ELSE <<OdStepOf("GetInstanceSnapshotID", ""),
           OdStepOf("GetStoragePoolVolume", ""),
           OdStepOf("ArchitectureID", ""),
           OdStepOf("GetProfiles", ""),
           OdStepOf("CreateInternal", "snapshot" \o ToString(i)),
           OdStepOf("CreateSnapshotMountpoint", "")>> \o OdSnapshotSteps(i + 1, n)

\* The fallible steps of a function from its CreateInternal on.
OdSteps(input) ==
    IF input.fn = "snapshotCommon"
        THEN <<OdStepOf("CreateInternal", "snapshot"),
               OdStepOf("LoadByInstance", ""),
               OdStepOf("CreateInstanceSnapshot", ""),
               OdStepOf("MountInstance", ""),
               OdStepOf("UpdateBackupFile", "")>>
        ELSE <<OdStepOf("CreateInternal", "instance"),
               OdStepOf("CreateContainerMountpoint", "")>>
               \o OdSnapshotSteps(1, input.snapshots)

OpDoneIdle ==
    /\ odInput = [fn |-> "", snapshots |-> 0]
    /\ odQueue = << >>
    /\ odErr = NoError
    /\ odDeferred = << >>
    /\ odLocks = << >>
    /\ odResult = AvPending

OpDoneStart ==
    /\ \/ odInput = [fn |-> "snapshotCommon", snapshots |-> 0]
       \/ \E n \in 0..MaxImportSnapshots :
            odInput = [fn |-> "internalImportFromBackup", snapshots |-> n]
    /\ odQueue = OdSteps(odInput)
    /\ odErr = NoError
    /\ odDeferred = << >>
    /\ odLocks = << >>
    /\ odResult = AvPending

\* A step: its error is assigned to err and, when there is one, returned;
\* a record created comes with a lock whose Done(err) is deferred.
OdStep ==
    /\ odResult = AvPending
    /\ odQueue # << >>
    /\ LET step == Head(odQueue)
       IN  \E err \in {NoError, step.name} :
             /\ odErr' = err
             /\ IF err # NoError
                    THEN /\ odResult' = err
                         /\ odQueue' = << >>
                         /\ UNCHANGED <<odDeferred, odLocks>>
                    ELSE /\ odQueue' = Tail(odQueue)
                         /\ UNCHANGED odResult
                         /\ IF step.lock = ""
                                THEN UNCHANGED <<odDeferred, odLocks>>
                                ELSE /\ odLocks' = [l \in DOMAIN odLocks \cup {step.lock} |->
                                                       IF l = step.lock THEN AvPending
                                                       ELSE odLocks[l]]
                                     /\ odDeferred' =
                                            Append(odDeferred,
                                                   [lock |-> step.lock, errAtDefer |-> err])
    /\ UNCHANGED odInput
    /\ UNCHANGED <<firstVars, snapVars, rebuildVars, aclVars, opdoneRest>>

\* reverter.Success() and return nil.
OdSuccess ==
    /\ odResult = AvPending
    /\ odQueue = << >>
    /\ odResult' = NoError
    /\ UNCHANGED <<odInput, odQueue, odErr, odDeferred, odLocks>>
    /\ UNCHANGED <<firstVars, snapVars, rebuildVars, aclVars, opdoneRest>>

\* The function returns: a deferred Done runs, the last deferred first.
OdDone ==
    /\ odResult # AvPending
    /\ odDeferred # << >>
    /\ LET call == odDeferred[Len(odDeferred)]
       IN  /\ odLocks' = [odLocks EXCEPT
                             ![call.lock] = DeferredArgument(call.errAtDefer, odResult)]
           /\ odDeferred' = SubSeq(odDeferred, 1, Len(odDeferred) - 1)
    /\ UNCHANGED <<odInput, odQueue, odErr, odResult>>
    /\ UNCHANGED <<firstVars, snapVars, rebuildVars, aclVars, opdoneRest>>

NextOpDone ==
    \/ OdStep
    \/ OdSuccess
    \/ OdDone

\* ---- what the claim speaks of ----

\* C38: when snapshotCommon or internalImportFromBackup has returned after
\* CreateInternal created a record, the lock that came with the record is
\* completed with the error the function returned: with the error that made
\* it fail, and with nil only when it succeeded.
C38_DoneWithTheError ==
    (odResult # AvPending /\ odDeferred = << >>) =>
        \A l \in DOMAIN odLocks : odLocks[l] = odResult

(***************************************************************************)
(* Network ACL Rename and Delete beside an operation that starts to refer  *)
(* to the ACL                                                              *)
(*                                                                         *)
(* isUsed reads the usages in transactions of its own; the row is renamed  *)
(* or deleted in a later transaction, and the two are not under a lock.    *)
(* The update of a network, a profile, an instance or another ACL that     *)
(* starts to refer to the ACL by its name is one transaction, which finds  *)
(* the ACL under that name and writes the reference.                       *)
(***************************************************************************)

\* The name the ACL of the call has when the call begins.
AclOldName == "acl1"

\* The transaction of the other operation: the usages after it and its
\* error; a reference to a name no ACL has is refused.
AddReference(rows, usage, usageType, name) ==
    IF LoadByName(rows, name, FALSE) # NoError
        THEN [usage |-> usage, err |-> "Network ACL not found"]
        ELSE [usage |-> usage \cup {usageType}, err |-> NoError]

AclRaceIdle ==
    /\ rfCall = [op |-> "none", newName |-> ""]
    /\ rfPc = "idle"
    /\ rfRows = << >>
    /\ rfUsage = {}
    /\ rfOther = "idle"
    /\ rfResult = AvPending

\* Rows whose names are unique, a call on the ACL, the usages there are, and
\* another operation that has not begun.
AclRaceStart ==
    /\ \/ \E newName \in AclNameTexts :
            /\ rfCall = [op |-> "Rename", newName |-> newName]
            /\ rfPc = "LoadByName"
       \/ /\ rfCall = [op |-> "Delete", newName |-> ""]
          /\ rfPc = "isUsed"
    /\ rfRows \in {[id \in {AclId} |-> AclOldName],
                   [id \in {AclId, OtherAclId} |-> IF id = AclId THEN AclOldName ELSE "acl2"]}
    /\ rfUsage \in SUBSET UsageTypes
    /\ rfOther = "ready"
    /\ rfResult = AvPending

\* The call returns the error.
RfReturn(err) ==
    /\ rfPc' = "returned"
    /\ rfResult' = err

\* Rename: an ACL of the new name must not exist.
RfLoadByName ==
    /\ rfPc = "LoadByName"
    /\ \E dbFails \in BOOLEAN :
         IF LoadByName(rfRows, rfCall.newName, dbFails) = NoError
             THEN RfReturn("An ACL by that name exists already")
             ELSE rfPc' = "isUsed" /\ UNCHANGED rfResult
    /\ UNCHANGED <<rfCall, rfRows, rfUsage, rfOther>>
    /\ UNCHANGED <<firstVars, snapVars, rebuildVars, aclVars, aclraceRest>>

\* Rename and Delete: the ACL must not be in use now.
RfIsUsed ==
    /\ rfPc = "isUsed"
    /\ \E dbFails \in BOOLEAN, visited \in {{u} : u \in rfUsage} \cup {{}} :
         /\ visited = {} => rfUsage = {}
         /\ \E outcome \in {isUsed(usedByFirstOnly(visited, dbFails))} :
              IF outcome.err # NoError THEN RfReturn(outcome.err)
              ELSE IF outcome.used
                  THEN RfReturn(IF rfCall.op = "Rename"
                                    THEN "Cannot rename an ACL that is in use"
                                    ELSE "Cannot delete an ACL that is in use")
              ELSE /\ rfPc' = IF rfCall.op = "Rename" THEN "validateName"
                              ELSE "DeleteNetworkACL"
                   /\ UNCHANGED rfResult
    /\ UNCHANGED <<rfCall, rfRows, rfUsage, rfOther>>
    /\ UNCHANGED <<firstVars, snapVars, rebuildVars, aclVars, aclraceRest>>

\* Rename: the new name must be valid.
RfValidateName ==
    /\ rfPc = "validateName"
    /\ IF ValidName(rfCall.newName)
           THEN rfPc' = "RenameNetworkACL" /\ UNCHANGED rfResult
           ELSE RfReturn("Invalid name")
    /\ UNCHANGED <<rfCall, rfRows, rfUsage, rfOther>>
    /\ UNCHANGED <<firstVars, snapVars, rebuildVars, aclVars, aclraceRest>>

\* Rename: the row is renamed in a transaction of its own.
RfRenameNetworkACL ==
    /\ rfPc = "RenameNetworkACL"
    /\ \E dbFails \in BOOLEAN :
         \E outcome \in {RenameNetworkACL(rfRows, AclId, rfCall.newName, dbFails)} :
           /\ rfRows' = outcome.rows
           /\ RfReturn(outcome.err)
    /\ UNCHANGED <<rfCall, rfUsage, rfOther>>
    /\ UNCHANGED <<firstVars, snapVars, rebuildVars, aclVars, aclraceRest>>

\* Delete: the row is deleted in a transaction of its own.
RfDeleteNetworkACL ==
    /\ rfPc = "DeleteNetworkACL"
    /\ \E dbFails \in BOOLEAN :
         \E outcome \in {DeleteNetworkACL(rfRows, AclId, dbFails)} :
           /\ rfRows' = outcome.rows
           /\ RfReturn(outcome.err)
    /\ UNCHANGED <<rfCall, rfUsage, rfOther>>
    /\ UNCHANGED <<firstVars, snapVars, rebuildVars, aclVars, aclraceRest>>

\* The other operation, at any moment: it starts to refer to the ACL under
\* the name the ACL had.
RfAddReference ==
    /\ rfOther = "ready"
    /\ \E usageType \in UsageTypes :
         \E outcome \in {AddReference(rfRows, rfUsage, usageType, AclOldName)} :
           /\ rfUsage' = outcome.usage
           /\ rfOther' = IF outcome.err = NoError THEN "referring" ELSE "refused"
    /\ UNCHANGED <<rfCall, rfPc, rfRows, rfResult>>
    /\ UNCHANGED <<firstVars, snapVars, rebuildVars, aclVars, aclraceRest>>

NextAclRace ==
    \/ RfLoadByName
    \/ RfIsUsed
    \/ RfValidateName
    \/ RfRenameNetworkACL
    \/ RfDeleteNetworkACL
    \/ RfAddReference

\* ---- what the claim speaks of ----

\* C39: whatever the interleaving of a Rename or a Delete with an operation
\* that starts to refer to the ACL, an ACL that is referred to under its old
\* name still has that name: the row is not deleted or renamed under a
\* reference.
C39_NoReferenceToGoneName ==
    rfUsage # {} => (AclId \in DOMAIN rfRows /\ rfRows[AclId] = AclOldName)

(***************************************************************************)
(* Specifications                                                          *)
(***************************************************************************)

\* The parts modelled after the operation lock, untouched.
AclIdle == AclValidateIdle /\ AclUpdateIdle

\* The parts modelled after the ACL Update, at rest.
NewerIdle ==
    /\ RenameIdle
    /\ GetLogIdle
    /\ PostIdle
    /\ MigrationIdle
    /\ BackupIdle
    /\ RestoreIdle
    /\ NumaIdle
    /\ InstanceIdIdle
    /\ VolSetIdle
    /\ DevAddIdle
    /\ RootDevIdle
    /\ OpDoneIdle
    /\ AclRaceIdle

LaterIdle == SnapshotIdle /\ RebuildIdle /\ AclIdle /\ NewerIdle

\* The four first parts, untouched.
FirstIdle == AutoIdle /\ VolatileIdle /\ DevicesIdle /\ LockIdle

InitAuto == AutoIdle /\ VolatileIdle /\ DevicesIdle /\ LockIdle /\ LaterIdle

SpecAuto == InitAuto /\ [][NextAuto]_vars

InitVolatile == VolatileStart /\ AutoIdle /\ DevicesIdle /\ LockIdle /\ LaterIdle

SpecVolatile == InitVolatile /\ [][NextVolatile]_vars

InitDevices == DevicesStart /\ AutoIdle /\ LockIdle /\ LaterIdle

SpecDevices == InitDevices /\ [][NextDevices]_vars

Init == LockStart /\ AutoIdle /\ VolatileIdle /\ DevicesIdle /\ LaterIdle

Spec == Init /\ [][Next]_vars

InitRestart == RestartStart /\ AutoIdle /\ VolatileIdle /\ DevicesIdle /\ LaterIdle

SpecRestart == InitRestart /\ [][NextRestart]_vars

InitSnapshot == SnapshotStart /\ FirstIdle /\ RebuildIdle /\ AclIdle /\ NewerIdle

SpecSnapshot == InitSnapshot /\ [][NextSnapshot]_vars

InitRebuild == RebuildStart /\ FirstIdle /\ SnapshotIdle /\ AclIdle /\ NewerIdle

SpecRebuild == InitRebuild /\ [][NextRebuild]_vars


InitAclValidate ==
    AclValidateStart /\ FirstIdle /\ SnapshotIdle /\ RebuildIdle /\ AclUpdateIdle /\ NewerIdle

SpecAclValidate == InitAclValidate /\ [][NextAclValidate]_vars


InitAclUpdate ==
    AclUpdateStart /\ FirstIdle /\ SnapshotIdle /\ RebuildIdle /\ AclValidateIdle /\ NewerIdle

SpecAclUpdate == InitAclUpdate /\ [][NextAclUpdate]_vars

InitAclRename ==
    /\ RenameStart
    /\ FirstIdle /\ SnapshotIdle /\ RebuildIdle /\ AclIdle
    /\ GetLogIdle /\ PostIdle /\ MigrationIdle /\ BackupIdle
    /\ RestoreIdle /\ NumaIdle /\ InstanceIdIdle /\ VolSetIdle
    /\ DevAddIdle /\ RootDevIdle /\ OpDoneIdle /\ AclRaceIdle

SpecAclRename == InitAclRename /\ [][NextRename]_vars

InitGetLog ==
    /\ GetLogStart
    /\ FirstIdle /\ SnapshotIdle /\ RebuildIdle /\ AclIdle
    /\ RenameIdle /\ PostIdle /\ MigrationIdle /\ BackupIdle
    /\ RestoreIdle /\ NumaIdle /\ InstanceIdIdle /\ VolSetIdle
    /\ DevAddIdle /\ RootDevIdle /\ OpDoneIdle /\ AclRaceIdle

SpecGetLog == InitGetLog /\ [][NextGetLog]_vars

InitPost ==
    /\ PostStart
    /\ FirstIdle /\ SnapshotIdle /\ RebuildIdle /\ AclIdle
    /\ RenameIdle /\ GetLogIdle /\ MigrationIdle /\ BackupIdle
    /\ RestoreIdle /\ NumaIdle /\ InstanceIdIdle /\ VolSetIdle
    /\ DevAddIdle /\ RootDevIdle /\ OpDoneIdle /\ AclRaceIdle

SpecPost == InitPost /\ [][NextPost]_vars

InitMigration ==
    /\ MigrationStart
    /\ FirstIdle /\ SnapshotIdle /\ RebuildIdle /\ AclIdle
    /\ RenameIdle /\ GetLogIdle /\ PostIdle /\ BackupIdle
    /\ RestoreIdle /\ NumaIdle /\ InstanceIdIdle /\ VolSetIdle
    /\ DevAddIdle /\ RootDevIdle /\ OpDoneIdle /\ AclRaceIdle

SpecMigration == InitMigration /\ [][NextMigration]_vars

InitBackup ==
    /\ BackupStart
    /\ FirstIdle /\ SnapshotIdle /\ RebuildIdle /\ AclIdle
    /\ RenameIdle /\ GetLogIdle /\ PostIdle /\ MigrationIdle
    /\ RestoreIdle /\ NumaIdle /\ InstanceIdIdle /\ VolSetIdle
    /\ DevAddIdle /\ RootDevIdle /\ OpDoneIdle /\ AclRaceIdle

SpecBackup == InitBackup /\ [][NextBackup]_vars

InitRestore ==
    /\ RestoreStart
    /\ FirstIdle /\ SnapshotIdle /\ RebuildIdle /\ AclIdle
    /\ RenameIdle /\ GetLogIdle /\ PostIdle /\ MigrationIdle
    /\ BackupIdle /\ NumaIdle /\ InstanceIdIdle /\ VolSetIdle
    /\ DevAddIdle /\ RootDevIdle /\ OpDoneIdle /\ AclRaceIdle

SpecRestore == InitRestore /\ [][NextRestore]_vars

InitNuma ==
    /\ NumaStart
    /\ FirstIdle /\ SnapshotIdle /\ RebuildIdle /\ AclIdle
    /\ RenameIdle /\ GetLogIdle /\ PostIdle /\ MigrationIdle
    /\ BackupIdle /\ RestoreIdle /\ InstanceIdIdle /\ VolSetIdle
    /\ DevAddIdle /\ RootDevIdle /\ OpDoneIdle /\ AclRaceIdle

SpecNuma == InitNuma /\ [][NextNuma]_vars

InitInstanceId ==
    /\ InstanceIdStart
    /\ FirstIdle /\ SnapshotIdle /\ RebuildIdle /\ AclIdle
    /\ RenameIdle /\ GetLogIdle /\ PostIdle /\ MigrationIdle
    /\ BackupIdle /\ RestoreIdle /\ NumaIdle /\ VolSetIdle
    /\ DevAddIdle /\ RootDevIdle /\ OpDoneIdle /\ AclRaceIdle

SpecInstanceId == InitInstanceId /\ [][NextInstanceId]_vars

InitVolSet ==
    /\ VolSetStart
    /\ FirstIdle /\ SnapshotIdle /\ RebuildIdle /\ AclIdle
    /\ RenameIdle /\ GetLogIdle /\ PostIdle /\ MigrationIdle
    /\ BackupIdle /\ RestoreIdle /\ NumaIdle /\ InstanceIdIdle
    /\ DevAddIdle /\ RootDevIdle /\ OpDoneIdle /\ AclRaceIdle

SpecVolSet == InitVolSet /\ [][NextVolSet]_vars

InitDevAdd ==
    /\ DevAddStart
    /\ FirstIdle /\ SnapshotIdle /\ RebuildIdle /\ AclIdle
    /\ RenameIdle /\ GetLogIdle /\ PostIdle /\ MigrationIdle
    /\ BackupIdle /\ RestoreIdle /\ NumaIdle /\ InstanceIdIdle
    /\ VolSetIdle /\ RootDevIdle /\ OpDoneIdle /\ AclRaceIdle

SpecDevAdd == InitDevAdd /\ [][NextDevAdd]_vars

InitRootDev ==
    /\ RootDevStart
    /\ FirstIdle /\ SnapshotIdle /\ RebuildIdle /\ AclIdle
    /\ RenameIdle /\ GetLogIdle /\ PostIdle /\ MigrationIdle
    /\ BackupIdle /\ RestoreIdle /\ NumaIdle /\ InstanceIdIdle
    /\ VolSetIdle /\ DevAddIdle /\ OpDoneIdle /\ AclRaceIdle

SpecRootDev == InitRootDev /\ [][NextRootDev]_vars

InitOpDone ==
    /\ OpDoneStart
    /\ FirstIdle /\ SnapshotIdle /\ RebuildIdle /\ AclIdle
    /\ RenameIdle /\ GetLogIdle /\ PostIdle /\ MigrationIdle
    /\ BackupIdle /\ RestoreIdle /\ NumaIdle /\ InstanceIdIdle
    /\ VolSetIdle /\ DevAddIdle /\ RootDevIdle /\ AclRaceIdle

SpecOpDone == InitOpDone /\ [][NextOpDone]_vars

InitAclRace ==
    /\ AclRaceStart
    /\ FirstIdle /\ SnapshotIdle /\ RebuildIdle /\ AclIdle
    /\ RenameIdle /\ GetLogIdle /\ PostIdle /\ MigrationIdle
    /\ BackupIdle /\ RestoreIdle /\ NumaIdle /\ InstanceIdIdle
    /\ VolSetIdle /\ DevAddIdle /\ RootDevIdle /\ OpDoneIdle

SpecAclRace == InitAclRace /\ [][NextAclRace]_vars

====
